---- MODULE Spec2Model ----
(***************************************************************************)
(* Bode sweep sequencer of bode_core.py (run_full_experiment), with the    *)
(* averaging sampler (get_measurement_avg_auto) and the two instrument     *)
(* connections (OwonDGE_SCPI generator, OwonVDS_SCPI oscilloscope).        *)
(*                                                                         *)
(* The program is single-threaded.  Every step of the model is one         *)
(* blocking call of the code (an instrument command with the settle sleep  *)
(* that follows it, one polled measurement read) or one block of pure      *)
(* computation between two blocking calls.  A KeyboardInterrupt is an      *)
(* input that can arrive while the thread is blocked in any such call.     *)
(*                                                                         *)
(* Numbers.  A reading is an exact value  (big*1e30 + small*u)/den  where  *)
(* u is 1e-9 V for an amplitude and 1/360 s for a delay (so that           *)
(* delay*freq*360 is a whole number of degrees for a frequency in Hz).     *)
(* Frequencies are whole numbers of Hz.                                    *)
(***************************************************************************)
EXTENDS Integers, Sequences, FiniteSets, TLC

\* ------------------------------------------------------------------ bounds
MaxPoints == 2
MaxAverages == 2

\* ------------------------------------------------------------------ numbers
\* Python's None (a record, so that it compares with numbers)
None == [none |-> TRUE]

Num(b, s) == [big |-> b, small |-> s, den |-> 1]

\* v > 1e30
GtOverload(v) == v.big > v.den \/ (v.big = v.den /\ v.small > 0)

\* v < 1e-9
LtFloor(v) == v.big < 0 \/ (v.big = 0 /\ v.small < v.den)

\* v > 0
Positive(v) == v.big > 0 \/ (v.big = 0 /\ v.small > 0)

\* abs(v)
Abs(v) == IF v.big < 0 \/ (v.big = 0 /\ v.small < 0)
          THEN [big |-> -v.big, small |-> -v.small, den |-> v.den]
          ELSE v

RECURSIVE SumBig(_), SumSmall(_)
SumBig(vals) == IF vals = <<>> THEN 0 ELSE Head(vals).big + SumBig(Tail(vals))
SumSmall(vals) == IF vals = <<>> THEN 0 ELSE Head(vals).small + SumSmall(Tail(vals))


\* ------------------------------------------------------------------ inputs
\* What one polled read can deliver as a number.
Vpp1Readings == {Num(0, 0), Num(0, 2), Num(2, 0)}
Vpp2Readings == {Num(0, 0), Num(0, 1), Num(1, 0), Num(2, 0)}
DelayReadings == {Num(0, 90), Num(-2, 0)}

FStarts == {0, 1}
FStops == {4}

RECURSIVE Pow(_, _)
Pow(b, e) == IF e = 0 THEN 1 ELSE b * Pow(b, e - 1)

\* numpy.linspace(start, stop, n)
Linspace(start, stop, n) ==
    [j \in 1..n |-> IF n = 1 THEN start ELSE start + ((j - 1) * (stop - start)) \div (n - 1)]

\* numpy.logspace(log10(start), log10(stop), n), for start, stop > 0
LogRatio(start, stop, n) == CHOOSE r \in 1..stop : start * Pow(r, n - 1) = stop
Logspace(start, stop, n) ==
    [j \in 1..n |-> IF n = 1 THEN start ELSE start * Pow(LogRatio(start, stop, n), j - 1)]

\* The spacing of the list is a whole number of Hz.
Representable(c) ==
    \/ c.num_points = 1
    \/ c.scale = "lin" /\ (c.f_stop - c.f_start) % (c.num_points - 1) = 0
    \/ c.scale = "log" /\ (c.f_start <= 0 \/ c.f_stop <= 0)
    \/ c.scale = "log" /\ c.f_start > 0 /\ c.f_stop > 0
         /\ \E r \in 1..c.f_stop : c.f_start * Pow(r, c.num_points - 1) = c.f_stop

Configs ==
    {c \in [scale : {"lin", "log"}, f_start : FStarts, f_stop : FStops,
            num_points : 1..MaxPoints, num_averages : 1..MaxAverages] : Representable(c)}

\* ------------------------------------------------------------------ commands
Cmd(d, c) == [dev |-> d, cmd |-> c]

\* setup_initial_state, in program order
SetupCmds == <<
    Cmd("gen", "FUNCtion:SHAPE SINusoid"),
    Cmd("gen", "VOLTage:AMPLitude"),
    Cmd("gen", "IMPedance INFinity"),
    Cmd("gen", "VOLTage:OFFSet 0V"),
    Cmd("scope", "CH1:DISPlay ON"),
    Cmd("scope", "CH2:DISPlay ON"),
    Cmd("scope", "CH1:COUPling DC"),
    Cmd("scope", "CH2:COUPling DC"),
    Cmd("scope", "CH1:PROBe X1"),
    Cmd("scope", "ACQuire:TYPE SAMPle"),
    Cmd("scope", "CH1:OFFSet 0"),
    Cmd("scope", "CH2:OFFSet 0"),
    Cmd("gen", "OUTPut:STATE ON") >>

\* run_full_experiment before the loop
PreLoopCmdsRunFirst == <<
    Cmd("scope", "CH1:SCALE 1"),
    Cmd("scope", "*RUN"),
    Cmd("scope", "TRIGger:SINGle:EDGE:SOURce CH1"),
    Cmd("scope", "CH2:SCALE 1"),
    Cmd("scope", "CH1:OFFSet 0"),
    Cmd("scope", "CH2:OFFSet 0"),
    Cmd("scope", "TRIGger:MODE AUTO") >>
PreLoopCmds == <<
    Cmd("scope", "CH1:SCALE 1"),
    Cmd("scope", "TRIGger:SINGle:EDGE:SOURce CH1"),
    Cmd("scope", "CH2:SCALE 1"),
    Cmd("scope", "CH1:OFFSet 0"),
    Cmd("scope", "CH2:OFFSet 0"),
    Cmd("scope", "TRIGger:MODE AUTO"),
    Cmd("scope", "*RUN") >>

\* one frequency point, up to the sampler call
PointCmdsTimebaseFirst == <<
    Cmd("gen", "FREQuency:FIXed"),
    Cmd("scope", "TIMebase:SCALE"),
    Cmd("scope", "*STOP") >>
PointCmdsRescale == <<
    Cmd("gen", "FREQuency:FIXed"),
    Cmd("scope", "*STOP"),
    Cmd("scope", "CH2:SCALE 1"),
    Cmd("scope", "TIMebase:SCALE") >>
PointCmds == <<
    Cmd("gen", "FREQuency:FIXed"),
    Cmd("scope", "*STOP"),
    Cmd("scope", "TIMebase:SCALE") >>

\* get_measurement_avg_auto, measurement registration
MeasureCmds == <<
    Cmd("scope", "MEASure:DELete ALL"),
    Cmd("scope", "MEASure:SOURce CHAN1"),
    Cmd("scope", "MEASure:ADD PKPK"),
    Cmd("scope", "MEASure:ADD FDELay"),
    Cmd("scope", "MEASure:SOURce CHAN2"),
    Cmd("scope", "MEASure:ADD PKPK") >>

GenOffCmd == Cmd("gen", "OUTPut:STATE OFF")

RestoreCmds == <<
    Cmd("scope", "ACQuire:TYPE SAMPle"),
    Cmd("scope", "TRIGger:MODE AUTO") >>

\* ------------------------------------------------------------------ state
VARIABLES
    pc,                 \* position in run_full_experiment / get_measurement_avg_auto
    k,                  \* index of the next command of the current block (0: none)
    exc,                \* exception in flight ("none" when there is none)
    config,             \* the configuration passed to run_full_experiment
    freq_list,
    point_i,            \* number of entries of freq_list consumed by the for loop
    results_freq, results_mag, results_phase,
    rep_i,              \* repetitions started by the sampler
    vpp1, vpp2, delay,  \* the three reads of the current repetition
    vpp1_vals, vpp2_vals, delay_vals,
    meas,               \* the sampler's return value, as received at line 429
    gen_is_connected, scope_is_connected,
    log                 \* commands transmitted to the instruments, in order

\* read_measurement_with_polling and the scope query it calls
VARIABLES
    rd_pc,              \* position in read_measurement_with_polling ("off": no call)
    timeout_sec,        \* its timeout, in sleep intervals of 0.25 s
    elapsed,            \* time.time() - start_time, in sleep intervals
    attempts,           \* calls of scope_measure_func made by this call
    last_val_str,
    rd_ret,             \* the value returned by the call
    q_pc,               \* position in OwonVDS_SCPI._query_command
    last_recv,          \* outcome of the last socket.recv of the query
    recv_calls,         \* socket.recv calls of the query, counted modulo RecvWrap
    rx_pending,         \* chunks of stale data waiting in the receive buffer
    peer_closed         \* the peer has closed the connection: recv returns b''

\* main() (bode_plotter.py, spectrum_analyzer.py): its configuration stage and, for
\* the Bode program, its connections and its finally block
VARIABLES
    program,            \* which main() runs: "bode" or "spectrum"
    cf_pc,              \* position in main() / get_user_config ("off": not running)
    config_to_use       \* current_config, then new_config while it is typed

\* the connection objects, driven operation by operation
VARIABLES
    scope_socket,       \* OwonVDS_SCPI._socket: "None" or "object"
    gen_instrument,     \* OwonDGE_SCPI.instrument: "None" or "object"
    last_op             \* the last operation called on a connection, and how it ended

\* run_spectrum_analysis
VARIABLES
    sp_pc,              \* position in run_spectrum_analysis ("off": no call)
    sp_config,          \* its config argument
    sp_i,               \* repetitions started by the for loop
    downloads,          \* what the scope sent back to each *ADC? query, in order
    all_complex_ffts,   \* the spectra kept, each named by its repetition
    sp_ret,             \* how the call ended: "None", "result" or an exception
    v_div_val,          \* the scale read back, in millivolts (None: not assigned)
    volts_per_step,     \* the volts-per-code factor of line 199 (None: not assigned)
    window              \* the local name window (None: not bound)

\* a call of get_optimal_timebase taken alone
VARIABLES
    tb_pc,              \* position in get_optimal_timebase ("off": no call)
    tb_freq,            \* its argument freq
    tb_ret              \* the pair it returns

ctlVars   == <<pc, k, exc>>
sweepVars == <<config, freq_list, point_i, results_freq, results_mag, results_phase>>
repVars   == <<rep_i, vpp1, vpp2, delay, vpp1_vals, vpp2_vals, delay_vals>>
connVars  == <<gen_is_connected, scope_is_connected>>
readerVars == <<rd_pc, timeout_sec, elapsed, attempts, last_val_str, rd_ret>>
queryVars == <<q_pc, last_recv, recv_calls, rx_pending, peer_closed>>
\* the variables run_full_experiment does not touch
mainVars  == <<program, cf_pc, config_to_use>>
handleVars == <<scope_socket, gen_instrument, last_op>>
spLocals == <<v_div_val, volts_per_step, window>>
spectrumVars == <<sp_pc, sp_config, sp_i, downloads, all_complex_ffts, sp_ret, spLocals>>
timebaseVars == <<tb_pc, tb_freq, tb_ret>>
otherVars == <<readerVars, queryVars, mainVars, handleVars, spectrumVars, timebaseVars>>
vars      == <<ctlVars, sweepVars, repVars, meas, connVars, log, otherVars>>

\* no call of the polling reader in progress
ReaderOff ==
    /\ rd_pc = "off" /\ timeout_sec = 0 /\ elapsed = 0 /\ attempts = 0
    /\ last_val_str = None /\ rd_ret = None
    /\ q_pc = "off" /\ last_recv = "none" /\ recv_calls = 0
    /\ rx_pending = 0 /\ peer_closed = FALSE

\* main() is not at its configuration stage
MainOff == program = "none" /\ cf_pc = "off" /\ config_to_use = None

\* no call of run_spectrum_analysis in progress
SpectrumOff ==
    /\ sp_pc = "off" /\ sp_config = None /\ sp_i = 0
    /\ downloads = <<>> /\ all_complex_ffts = <<>> /\ sp_ret = "pending"
    /\ v_div_val = None /\ volts_per_step = None /\ window = None

\* the handles are not looked at: the connected flags stand for the connections
HandlesOff == scope_socket = "object" /\ gen_instrument = "object" /\ last_op = None

\* no call of get_optimal_timebase taken alone
TimebaseOff == tb_pc = "off" /\ tb_freq = None /\ tb_ret = None

NoneTriple == <<None, None, None>>

Init ==
    /\ pc = "setup" /\ k = 1 /\ exc = "none"
    /\ config \in Configs
    /\ freq_list = <<>> /\ point_i = 0
    /\ results_freq = <<>> /\ results_mag = <<>> /\ results_phase = <<>>
    /\ rep_i = 0 /\ vpp1 = None /\ vpp2 = None /\ delay = None
    /\ vpp1_vals = <<>> /\ vpp2_vals = <<>> /\ delay_vals = <<>>
    /\ meas = NoneTriple
    /\ gen_is_connected \in BOOLEAN
    /\ scope_is_connected \in BOOLEAN
    /\ log = <<>>
    /\ ReaderOff
    /\ MainOff
    /\ HandlesOff
    /\ SpectrumOff
    /\ TimebaseOff

\* ------------------------------------------------------------------ connections
Connected(dev) == IF dev = "gen" THEN gen_is_connected ELSE scope_is_connected

\* what close() raises when it fails: socket.close() of the scope object,
\* instrument.close() of the generator object
CloseError(dev) == IF dev = "gen" THEN "VisaIOError" ELSE "OSError"

\* _send_command: _ensure_connection raises when the flag is false; a transport
\* error of the write is caught and the connection is closed by self.disconnect(),
\* after which the call returns ("error"); when close() raises too, its exception
\* leaves _send_command with the flag and the handle as they were.
SendOutcomes(dev) ==
    IF Connected(dev) THEN {"sent", "error", CloseError(dev)} ELSE {"ConnectionError"}

\* the call did not return: it raised the exception o
Raised(o) == o \notin {"sent", "error"}

AfterSend(c, o) ==
    /\ log' = IF o = "sent" THEN Append(log, c) ELSE log
    /\ gen_is_connected' = IF o = "error" /\ c.dev = "gen" THEN FALSE ELSE gen_is_connected
    /\ scope_is_connected' = IF o = "error" /\ c.dev = "scope" THEN FALSE ELSE scope_is_connected

\* Where an exception raised at the current position is taken.
RaiseUncaught(e) == pc' = "raised" /\ k' = 0 /\ exc' = e

\* inside try (399-447): KeyboardInterrupt is handled at 449, anything else stays in
\* flight while the finally block runs
RaiseInTry(e) ==
    /\ pc' = "gen_off" /\ k' = 0
    /\ exc' = IF e = "KeyboardInterrupt" THEN "none" ELSE e

\* ------------------------------------------------------------------ sequencer
\* setup_initial_state(gen, scope, config), called at line 352, outside any try
setup_initial_state ==
    /\ pc = "setup"
    /\ UNCHANGED otherVars
    /\ \E o \in SendOutcomes(SetupCmds[k].dev) :
         /\ AfterSend(SetupCmds[k], o)
         /\ IF Raised(o) THEN RaiseUncaught(o)
            ELSE IF k < Len(SetupCmds) THEN pc' = "setup" /\ k' = k + 1 /\ exc' = exc
            ELSE pc' = "freq_list" /\ k' = 0 /\ exc' = exc
    /\ UNCHANGED <<sweepVars, repVars, meas>>

\* lines 355-371: the frequency list and the empty result lists
BuildFreqList ==
    /\ pc = "freq_list"
    /\ UNCHANGED otherVars
    /\ IF config.scale = "log" /\ (config.f_start <= 0 \/ config.f_stop <= 0)
       THEN /\ RaiseUncaught("ValueError")      \* math.log10 of a non-positive number
            /\ freq_list' = freq_list
       ELSE /\ freq_list' = IF config.scale = "log"
                            THEN Logspace(config.f_start, config.f_stop, config.num_points)
                            ELSE Linspace(config.f_start, config.f_stop, config.num_points)
            /\ pc' = "pre" /\ k' = 1 /\ exc' = exc
    /\ UNCHANGED <<config, point_i, results_freq, results_mag, results_phase>>
    /\ UNCHANGED <<repVars, meas, connVars, log>>

\* lines 374-397: scales, trigger source, offsets, trigger mode, RUN
PreLoop ==
    /\ pc = "pre"
    /\ UNCHANGED otherVars
    /\ \E o \in SendOutcomes(PreLoopCmds[k].dev) :
         /\ AfterSend(PreLoopCmds[k], o)
         /\ IF Raised(o) THEN RaiseUncaught(o)
            ELSE IF k < Len(PreLoopCmds) THEN pc' = "pre" /\ k' = k + 1 /\ exc' = exc
            ELSE pc' = "loop" /\ k' = 0 /\ exc' = exc
    /\ UNCHANGED <<sweepVars, repVars, meas>>

\* lines 399-402: the for statement and the skip of a non-positive frequency
LoopHeadMeasuresAll ==
    /\ pc = "loop"
    /\ UNCHANGED otherVars
    /\ IF point_i = Len(freq_list)
       THEN pc' = "gen_off" /\ k' = 0 /\ point_i' = point_i
       ELSE /\ point_i' = point_i + 1
            /\ pc' = "point" /\ k' = 1
    /\ UNCHANGED <<exc, config, freq_list, results_freq, results_mag, results_phase>>
    /\ UNCHANGED <<repVars, meas, connVars, log>>
LoopHead ==
    /\ pc = "loop"
    /\ UNCHANGED otherVars
    /\ IF point_i = Len(freq_list)
       THEN pc' = "gen_off" /\ k' = 0 /\ point_i' = point_i
       ELSE /\ point_i' = point_i + 1
            /\ IF freq_list[point_i + 1] <= 0
               THEN pc' = "loop" /\ k' = 0
               ELSE pc' = "point" /\ k' = 1
    /\ UNCHANGED <<exc, config, freq_list, results_freq, results_mag, results_phase>>
    /\ UNCHANGED <<repVars, meas, connVars, log>>

\* lines 406-429: set the frequency, STOP, set the timebase, call the sampler
PointStep ==
    /\ pc = "point"
    /\ UNCHANGED otherVars
    /\ \E o \in SendOutcomes(PointCmds[k].dev) :
         /\ AfterSend(PointCmds[k], o)
         /\ IF Raised(o) THEN RaiseInTry(o)
            ELSE IF k < Len(PointCmds) THEN pc' = "point" /\ k' = k + 1 /\ exc' = exc
            ELSE pc' = "reg" /\ k' = 1 /\ exc' = exc
    /\ UNCHANGED <<sweepVars, repVars, meas>>

\* ------------------------------------------------------------------ sampler
\* for i in range(num_averages)
NextRepetition ==
    IF rep_i < config.num_averages
    THEN pc' = "read" /\ k' = 1 /\ rep_i' = rep_i + 1
    ELSE pc' = "avg" /\ k' = 0 /\ rep_i' = rep_i

\* lines 280-282: except Exception: return None, None, None
SamplerFailurePropagates == RaiseInTry("ConnectionError") /\ meas' = meas /\ rep_i' = rep_i
SamplerFailure == pc' = "record" /\ k' = 0 /\ exc' = exc /\ meas' = NoneTriple /\ rep_i' = rep_i

\* lines 242-255, one registration command per step
Register ==
    /\ pc = "reg"
    /\ UNCHANGED otherVars
    /\ \E o \in SendOutcomes(MeasureCmds[k].dev) :
         /\ AfterSend(MeasureCmds[k], o)
         /\ IF Raised(o) THEN SamplerFailure
            ELSE IF k < Len(MeasureCmds)
            THEN pc' = "reg" /\ k' = k + 1 /\ exc' = exc /\ meas' = meas /\ rep_i' = rep_i
            ELSE NextRepetition /\ exc' = exc /\ meas' = meas
    /\ UNCHANGED <<sweepVars, vpp1, vpp2, delay, vpp1_vals, vpp2_vals, delay_vals>>

\* read_measurement_with_polling as the sampler sees it: a number, or None (the
\* timeout ran out, the query returned None, the transport failed and the scope
\* object closed its connection, or the scope was not connected)
Readings(n) == IF n = 1 THEN Vpp1Readings ELSE IF n = 2 THEN Vpp2Readings ELSE DelayReadings

PollingResults(n) ==
    IF scope_is_connected
    THEN [value : Readings(n), connected : {TRUE}] \cup [value : {None}, connected : BOOLEAN]
    ELSE [value : {None}, connected : {FALSE}]

\* lines 259-265: the wait and the three reads of one repetition
ReadMeasurement ==
    /\ pc = "read"
    /\ UNCHANGED otherVars
    /\ \E r \in PollingResults(k) :
         /\ scope_is_connected' = r.connected
         /\ vpp1' = IF k = 1 THEN r.value ELSE vpp1
         /\ vpp2' = IF k = 2 THEN r.value ELSE vpp2
         /\ delay' = IF k = 3 THEN r.value ELSE delay
    /\ IF k < 3 THEN pc' = "read" /\ k' = k + 1 ELSE pc' = "rep_check" /\ k' = 0
    /\ UNCHANGED <<exc, sweepVars, rep_i, vpp1_vals, vpp2_vals, delay_vals, meas>>
    /\ UNCHANGED <<gen_is_connected, log>>

\* v >= 1e30
GeOverload(v) == v.big > v.den \/ (v.big = v.den /\ v.small >= 0)

DiscardOverloadInclusive(a, b, d) ==
    \/ a = None \/ b = None \/ d = None
    \/ GeOverload(a) \/ GeOverload(b) \/ GeOverload(Abs(d))

\* lines 267-268
DiscardOverload(a, b, d) ==
    \/ a = None \/ b = None \/ d = None
    \/ GtOverload(a) \/ GtOverload(b) \/ GtOverload(Abs(d))

\* line 272
DiscardTooLow(a) == LtFloor(a)

\* lines 267-278: discard the repetition or append its three values
RepetitionCheck ==
    /\ pc = "rep_check"
    /\ UNCHANGED otherVars
    /\ IF DiscardOverload(vpp1, vpp2, delay) \/ DiscardTooLow(vpp1)
       THEN UNCHANGED <<vpp1_vals, vpp2_vals, delay_vals>>
       ELSE /\ vpp1_vals' = Append(vpp1_vals, vpp1)
            /\ vpp2_vals' = Append(vpp2_vals, vpp2)
            /\ delay_vals' = Append(delay_vals, delay)
    /\ vpp1' = None /\ vpp2' = None /\ delay' = None
    /\ NextRepetition
    /\ UNCHANGED <<exc, sweepVars, meas, connVars, log>>

\* sum(vals) / len(vals), lines 290-292
MeanOverAllRepetitions(vals) ==
    [big |-> SumBig(vals), small |-> SumSmall(vals), den |-> config.num_averages]
Mean(vals) == [big |-> SumBig(vals), small |-> SumSmall(vals), den |-> Len(vals)]

\* lines 286-294
SamplerResult(l1, l2, l3) ==
    IF l1 = <<>> \/ l2 = <<>> \/ l3 = <<>>
    THEN NoneTriple
    ELSE <<Mean(l1), Mean(l2), Mean(l3)>>

SamplerReturn ==
    /\ pc = "avg"
    /\ UNCHANGED otherVars
    /\ meas' = SamplerResult(vpp1_vals, vpp2_vals, delay_vals)
    /\ pc' = "record" /\ k' = 0
    /\ UNCHANGED <<exc, sweepVars, repVars, connVars, log>>

\* ------------------------------------------------------------------ recording
\* 20 * math.log10(vpp2 / vpp1), kept as the ratio it is taken of
Db(v2, v1) == [num |-> v2, den |-> v1]

\* (-delay * freq * 360.0) % 360.0, minus 360 when above 180; in degrees, as a
\* fraction over the delay's denominator (delays of the list have big = 0)
PhaseDeg(d, freq) ==
    IF d = [nan |-> TRUE] THEN d        \* nan % 360.0 is nan, and nan > 180.0 is False
    ELSE LET m == (-(d.small * freq)) % (360 * d.den)
         IN  [num |-> IF m > 180 * d.den THEN m - 360 * d.den ELSE m, den |-> d.den]

\* line 435
ClampVpp1(v) == IF LtFloor(v) THEN Num(0, 1) ELSE v

\* line 431
AnyNone(m) == m[1] = None \/ m[2] = None \/ m[3] = None

\* lines 432-433: the failed point is skipped with continue
SkipPointAborts == pc' = "gen_off" /\ k' = 0 /\ exc' = exc
SkipPoint == pc' = "loop" /\ k' = 0 /\ exc' = exc

\* lines 431-447; the sampler's locals are dead once its result is consumed, and the
\* next call starts from empty lists (233-235)
Record ==
    /\ pc = "record"
    /\ UNCHANGED otherVars
    /\ IF AnyNone(meas)
       THEN /\ SkipPoint
            /\ UNCHANGED <<results_freq, results_mag, results_phase>>
       ELSE IF ~Positive(meas[2])
       THEN /\ RaiseInTry("ValueError")          \* math.log10 of a ratio <= 0
            /\ UNCHANGED <<results_freq, results_mag, results_phase>>
       ELSE /\ results_freq' = Append(results_freq, freq_list[point_i])
            /\ results_mag' = Append(results_mag, Db(meas[2], ClampVpp1(meas[1])))
            /\ results_phase' = Append(results_phase, PhaseDeg(meas[3], freq_list[point_i]))
            /\ pc' = "loop" /\ k' = 0 /\ exc' = exc
    /\ vpp1_vals' = <<>> /\ vpp2_vals' = <<>> /\ delay_vals' = <<>> /\ rep_i' = 0
    /\ UNCHANGED <<config, freq_list, point_i, vpp1, vpp2, delay, meas, connVars, log>>

\* ------------------------------------------------------------------ cleanup
\* after the finally block: an exception in flight goes on to the caller; otherwise
\* line 462 decides whether the scope is restored
AfterFinally ==
    IF exc # "none" THEN pc' = "raised" /\ k' = 0
    ELSE IF scope_is_connected' THEN pc' = "restore" /\ k' = 1
    ELSE pc' = "returned" /\ k' = 0

\* lines 451-458: gen.output1.set_state("OFF"), any Exception caught
GeneratorOff ==
    /\ pc = "gen_off"
    /\ UNCHANGED otherVars
    /\ \E o \in SendOutcomes("gen") : AfterSend(GenOffCmd, o)
    /\ AfterFinally
    /\ UNCHANGED <<exc, sweepVars, repVars, meas>>

\* lines 461-468: acquisition type and trigger mode, any Exception ignored
RestoreScope ==
    /\ pc = "restore"
    /\ UNCHANGED otherVars
    /\ \E o \in SendOutcomes("scope") :
         /\ AfterSend(RestoreCmds[k], o)
         /\ IF k < Len(RestoreCmds) /\ o = "sent"
            THEN pc' = "restore" /\ k' = k + 1
            ELSE pc' = "returned" /\ k' = 0
    /\ UNCHANGED <<exc, sweepVars, repVars, meas>>

\* ------------------------------------------------------------------ interrupt
\* An exception that leaves get_measurement_avg_auto unwinds its frame: its locals
\* (233-235, 263-265) are gone.
SamplerUnwound ==
    /\ rep_i' = 0 /\ vpp1' = None /\ vpp2' = None /\ delay' = None
    /\ vpp1_vals' = <<>> /\ vpp2_vals' = <<>> /\ delay_vals' = <<>>

\* The command the thread is about to send, or has just sent and is sleeping after.
CurrentCmd ==
    CASE pc = "setup" -> SetupCmds[k]
      [] pc = "pre" -> PreLoopCmds[k]
      [] pc = "point" -> PointCmds[k]
      [] pc = "reg" -> MeasureCmds[k]
      [] pc = "gen_off" -> GenOffCmd
      [] pc = "restore" -> RestoreCmds[k]

BlockingPcs == {"setup", "pre", "point", "reg", "read", "gen_off", "restore"}

\* The sleeps of the sequencer after each set command, in milliseconds, command by
\* command (0: the next instrument command follows with no sleep of the sequencer).
\* setup_initial_state, 308-337: no sleep after the generator commands
SetupSleeps == <<0, 0, 0, 0, 300, 300, 300, 300, 300, 300, 300, 300, 0>>

\* run_full_experiment, 376-397
PreLoopSleeps == <<2000, 300, 2000, 300, 300, 300, 3000>>

\* min(max(period * 3, 0.5), 5.0), lines 408-411, for a whole number of Hz
WaitForSignal(freq) ==
    LET three_periods == 3000 \div freq
        wait_for_signal == IF three_periods > 500 THEN three_periods ELSE 500
    IN  IF wait_for_signal < 5000 THEN wait_for_signal ELSE 5000

\* 406-424: the stabilization wait, STOP_WAIT, SCALE_WAIT
PointSleeps(freq) == <<WaitForSignal(freq), 1500, 2000>>

\* get_measurement_avg_auto, 244-255: VDS_PAUSE_MEAS after each command
MeasureSleeps == <<200, 200, 200, 200, 200, 200>>

\* 453-464: the generator is switched off and the scope restored with no sleep
CleanupSleeps == <<0, 0, 0>>

\* the sleep the sequencer makes after the command of the current position
SleepAfter ==
    CASE pc = "setup" -> SetupSleeps[k]
      [] pc = "pre" -> PreLoopSleeps[k]
      [] pc = "point" -> PointSleeps(freq_list[point_i])[k]
      [] pc = "reg" -> MeasureSleeps[k]
      [] pc = "gen_off" -> CleanupSleeps[1]
      [] pc = "restore" -> CleanupSleeps[k + 1]

\* Where Ctrl-C finds the command of the current position: not yet written
\* ("before"), written ("after"), or its write failed and _send_command closed the
\* connection and returned, the thread now being in the sleep that follows the
\* command in the sequencer ("failed").
InterruptPoints == {"before", "after", "failed"}

\* Ctrl-C while the thread is blocked.  _send_command, the polling reader and the
\* sampler catch Exception only, so the interrupt reaches run_full_experiment:
\* no handler before the try (352-397) nor after the finally (461-466), the
\* handler of line 449 inside the try, the handler of line 455 inside the finally.
KeyboardInterrupt ==
    /\ pc \in BlockingPcs
    /\ UNCHANGED otherVars
    /\ \E at \in InterruptPoints :
         /\ at # "before" => pc # "read" /\ Connected(CurrentCmd.dev)
         /\ at = "failed" => SleepAfter > 0
         /\ log' = IF at = "after" THEN Append(log, CurrentCmd) ELSE log
         /\ gen_is_connected' = IF at = "failed" /\ CurrentCmd.dev = "gen"
                                THEN FALSE ELSE gen_is_connected
         /\ scope_is_connected' = IF at = "failed" /\ CurrentCmd.dev = "scope"
                                  THEN FALSE ELSE scope_is_connected
    /\ UNCHANGED <<sweepVars, meas>>
    /\ SamplerUnwound
    /\ CASE pc \in {"setup", "pre", "restore"} -> RaiseUncaught("KeyboardInterrupt")
         [] pc \in {"point", "reg", "read"} -> RaiseInTry("KeyboardInterrupt")
         [] pc = "gen_off" -> AfterFinally /\ exc' = exc

Next ==
    \/ setup_initial_state
    \/ BuildFreqList
    \/ PreLoop
    \/ LoopHead
    \/ PointStep
    \/ Register
    \/ ReadMeasurement
    \/ RepetitionCheck
    \/ SamplerReturn
    \/ Record
    \/ GeneratorOff
    \/ RestoreScope
    \/ KeyboardInterrupt

Spec == Init /\ [][Next]_vars

\* ------------------------------------------------------------------ observations
Finished == pc \in {"returned", "raised"}

RECURSIVE LastOf(_, _)
\* the last command of the log that belongs to the set, or None
LastOf(l, set) ==
    IF l = <<>> THEN None
    ELSE IF l[Len(l)] \in set THEN l[Len(l)]
    ELSE LastOf(SubSeq(l, 1, Len(l) - 1), set)

GenOutput == LastOf(log, {Cmd("gen", "OUTPut:STATE ON"), GenOffCmd})
RunStop == LastOf(log, {Cmd("scope", "*RUN"), Cmd("scope", "*STOP")})

GenOn == Cmd("gen", "OUTPut:STATE ON")
SamplerPcs == {"reg", "read", "rep_check", "avg"}
TransportFailed == ~gen_is_connected \/ ~scope_is_connected

\* ------------------------------------------------------------------ claims

\* C1: whatever the exit path of run_full_experiment, the generator output has been
\* commanded OFF when the function ends: no execution ends with the output left ON
\* (stated for a generator whose connection is still up, which can take the command).
C1_GeneratorOffOnEveryExit ==
    (Finished /\ gen_is_connected) => GenOutput # GenOn

\* C2: whatever the exit path of a run that has entered the per-point loop, the scope
\* (when its connection is still up) has been commanded back to acquisition type
\* SAMPle and trigger mode AUTO when the function ends: these two commands are the
\* last ones of the run.
C2_ScopeRestoredOnEveryExit ==
    (Finished /\ scope_is_connected /\ point_i > 0) =>
        /\ Len(log) >= 2
        /\ SubSeq(log, Len(log) - 1, Len(log)) = RestoreCmds

\* C3: a KeyboardInterrupt delivered once the sweep has begun (the frequency list is
\* built) is caught by run_full_experiment: the function never ends by propagating
\* it, so the entries recorded so far are returned.
C3_InterruptCaught ==
    ~(pc = "raised" /\ exc = "KeyboardInterrupt" /\ freq_list # <<>>)

\* C4: every measurement read of the sampler takes place while the scope is running:
\* the last run/stop command before a read is RUN.
C4_MeasuredWhileRunning ==
    pc = "read" => RunStop = Cmd("scope", "*RUN")

\* C5: when the sampler fails for a point (an output is None), no entry is appended
\* and the sweep goes on with the next frequency; the failed point raises nothing.
C5_FailedPointSkipped ==
    [][(pc = "record" /\ AnyNone(meas)) =>
            /\ pc' = "loop" /\ exc' = "none"
            /\ point_i' = point_i /\ freq_list' = freq_list
            /\ results_freq' = results_freq
            /\ results_mag' = results_mag
            /\ results_phase' = results_phase]_vars

\* a first point with a positive frequency was skipped after its sampler call failed,
\* and the second point is being measured
C5_Witness ==
    /\ pc = "read" /\ point_i = 2
    /\ freq_list[1] > 0
    /\ results_freq = <<>>

\* C6: the three result lists always have equal length, change only by an append at
\* the end, hold exactly one entry per point whose sampler call succeeded (none for a
\* failed point), in the order of the frequency list, and never more than the points.
C6_OneEntryPerMeasuredPoint ==
    [][/\ Len(results_freq') = Len(results_mag')
       /\ Len(results_mag') = Len(results_phase')
       /\ Len(results_freq') <= point_i'
       /\ pc # "record" => /\ results_freq' = results_freq
                           /\ results_mag' = results_mag
                           /\ results_phase' = results_phase
       /\ pc = "record" =>
            /\ results_freq' = IF AnyNone(meas) THEN results_freq
                               ELSE Append(results_freq, freq_list[point_i])
            /\ Len(results_mag') = Len(results_freq')
            /\ SubSeq(results_mag', 1, Len(results_mag)) = results_mag
            /\ SubSeq(results_phase', 1, Len(results_phase)) = results_phase]_vars

\* a repetition is valid when none of its reads is None, no amplitude is above 1e30,
\* the delay's magnitude is not above 1e30 and the primary amplitude is not below 1e-9
ValidRepetition(a, b, d) ==
    /\ a # None /\ b # None /\ d # None
    /\ ~GtOverload(a) /\ ~GtOverload(b) /\ ~GtOverload(Abs(d))
    /\ ~LtFloor(a)

IsMeanOf(m, vals) ==
    /\ m.den = Len(vals)
    /\ m.big = SumBig(vals)
    /\ m.small = SumSmall(vals)

\* C7: the three accumulators always hold the same repetitions, exactly the valid
\* ones (a repetition enters all three or none), and the sampler returns the
\* arithmetic mean of each over them, or three None when no repetition was valid.
C7_MeanOfValidRepetitions ==
    [][/\ pc = "rep_check" =>
            IF ValidRepetition(vpp1, vpp2, delay)
            THEN /\ vpp1_vals' = Append(vpp1_vals, vpp1)
                 /\ vpp2_vals' = Append(vpp2_vals, vpp2)
                 /\ delay_vals' = Append(delay_vals, delay)
            ELSE UNCHANGED <<vpp1_vals, vpp2_vals, delay_vals>>
       /\ (pc = "read" /\ pc' \in SamplerPcs) =>
            UNCHANGED <<vpp1_vals, vpp2_vals, delay_vals>>
       /\ pc = "avg" =>
            IF vpp1_vals = <<>>
            THEN meas' = NoneTriple
            ELSE /\ IsMeanOf(meas'[1], vpp1_vals)
                 /\ IsMeanOf(meas'[2], vpp2_vals)
                 /\ IsMeanOf(meas'[3], delay_vals)]_vars

\* the sampler has returned the means of a call in which one of two repetitions was
\* discarded and the other was valid
C7_Witness ==
    /\ pc = "record" /\ rep_i = 2
    /\ Len(vpp1_vals) = 1 /\ Len(vpp2_vals) = 1 /\ Len(delay_vals) = 1
    /\ meas = <<Mean(vpp1_vals), Mean(vpp2_vals), Mean(delay_vals)>>

\* a repetition is valid by the glossary when none of its reads is None, no reading
\* has a magnitude >= 1e30 and the primary amplitude is at least 1e-9
ValidByGlossary(a, b, d) ==
    /\ a # None /\ b # None /\ d # None
    /\ ~GeOverload(Abs(a)) /\ ~GeOverload(Abs(b)) /\ ~GeOverload(Abs(d))
    /\ ~LtFloor(a)

\* C8 as claimed: a repetition with a read that is None, with a reading of magnitude
\* >= 1e30 or with a primary amplitude below 1e-9 is discarded.
C8_DiscardAtOrAboveSentinel ==
    [][(pc = "rep_check" /\ ~ValidByGlossary(vpp1, vpp2, delay)) =>
            UNCHANGED <<vpp1_vals, vpp2_vals, delay_vals>>]_vars

\* C8 amended: a repetition is accepted if and only if its three reads returned a
\* value, neither amplitude is greater than 1e30, the magnitude of the delay is not
\* greater than 1e30 and the primary amplitude is not below 1e-9; a reading of
\* exactly 1e30 is accepted.
C8_DiscardAboveSentinel ==
    [][pc = "rep_check" =>
            (Len(vpp1_vals') = Len(vpp1_vals) + 1
                <=> ValidRepetition(vpp1, vpp2, delay))]_vars

\* a repetition whose secondary amplitude is exactly 1e30 has been accepted
C8_Witness ==
    /\ pc \in {"read", "avg"}
    /\ vpp2_vals # <<>>
    /\ vpp2_vals[Len(vpp2_vals)] = Num(1, 0)

\* C9 as claimed: no exception of any kind leaves the sampler; a step taken inside it
\* leads to a step inside it or to its return.
C9_NothingLeavesSampler ==
    [][(pc \in SamplerPcs) => (pc' \in (SamplerPcs \cup {"record"}))]_vars

\* C9 amended: an Exception raised at a step of the sampler (the ConnectionError of a
\* registration command on a closed connection) makes it return three None; its
\* result is three numbers or three None; the only thing that leaves the sampler
\* otherwise is a KeyboardInterrupt, which the sequencer handles at line 449.
C9_SamplerAllOrNothing ==
    [][(pc \in SamplerPcs) =>
         /\ pc' \in (SamplerPcs \cup {"record", "gen_off"})
         /\ exc' = "none"
         /\ pc' = "gen_off" => pc \in {"reg", "read"} /\ meas' = meas
         /\ (pc = "reg" /\ ~scope_is_connected /\ pc' # "gen_off") =>
                pc' = "record" /\ meas' = NoneTriple
         /\ pc' = "record" =>
                \/ meas' = NoneTriple
                \/ meas'[1] # None /\ meas'[2] # None /\ meas'[3] # None]_vars

\* the sampler has returned three None from a registration command that raised,
\* before any repetition
C9_Witness ==
    /\ pc = "record" /\ rep_i = 0
    /\ meas = NoneTriple
    /\ ~scope_is_connected

\* C10: once a transport failure has closed the connection of the generator or of the
\* scope, the run measures and records no further frequency point: the sampler is not
\* called again and nothing is appended to the results.
C10_TransportFailureIsFatal ==
    [][TransportFailed =>
         /\ results_freq' = results_freq
         /\ ~(pc = "point" /\ pc' = "reg")]_vars


\* ================================================================== polling reader
\* read_measurement_with_polling(scope_measure_func, timeout_sec) with the fetch the
\* sampler passes to it: a measurement query of the scope (MeasureCommands.get_pkpk
\* -> SCPI_Subsystem._query -> OwonVDS_SCPI._query_command).  One step is one
\* blocking call (a recv, a sendall, the sleep) with the computation that follows it.

MaxTimeout == 3
MaxFetchTicks == 1
MaxPending == 1
RecvWrap == 2

\* run_full_experiment is not running
SweepOff ==
    /\ pc = "off" /\ k = 0 /\ exc = "none"
    /\ config = None /\ freq_list = <<>> /\ point_i = 0
    /\ results_freq = <<>> /\ results_mag = <<>> /\ results_phase = <<>>
    /\ rep_i = 0 /\ vpp1 = None /\ vpp2 = None /\ delay = None
    /\ vpp1_vals = <<>> /\ vpp2_vals = <<>> /\ delay_vals = <<>>
    /\ meas = NoneTriple

\* a str value
Text(t) == [text |-> t]

\* float values that are not finite
NaN == [nan |-> TRUE]
Inf == [inf |-> TRUE]

\* what the scope's software may answer to a measurement query, as received
RawResponses == {"2e-09\n", "1E+30\n", "9.9E37\n", "?\n", "\n", "nan\n", "inf\n"}

\* response_data.decode('utf-8').strip()
Strip(raw) ==
    CASE raw = "2e-09\n" -> "2e-09"
      [] raw = "1E+30\n" -> "1E+30"
      [] raw = "9.9E37\n" -> "9.9E37"
      [] raw = "?\n" -> "?"
      [] raw = "\n" -> ""
      [] raw = "nan\n" -> "nan"
      [] raw = "inf\n" -> "inf"
      [] raw = "" -> ""

\* the strings float() accepts
Parseable(t) == t \in {"2e-09", "1E+30", "9.9E37", "nan", "inf"}

\* float(val_str) of a parseable string; amplitudes in units of 1e-9 V
Float(t) ==
    CASE t = "2e-09" -> Num(0, 2)
      [] t = "1E+30" -> Num(1, 0)
      [] t = "9.9E37" -> Num(99000000, 0)
      [] t = "nan" -> NaN
      [] t = "inf" -> Inf

PollingInit ==
    /\ SweepOff
    /\ MainOff
    /\ HandlesOff
    /\ SpectrumOff
    /\ TimebaseOff
    /\ gen_is_connected = FALSE
    /\ scope_is_connected \in BOOLEAN
    /\ log = <<>>
    /\ rd_pc = "while" /\ timeout_sec \in 1..MaxTimeout /\ elapsed = 0 /\ attempts = 0
    /\ last_val_str = Text("N/A") /\ rd_ret = None
    /\ q_pc = "off" /\ last_recv = "none" /\ recv_calls = 0
    /\ rx_pending \in 0..MaxPending /\ peer_closed \in BOOLEAN

sweepFrame ==
    <<ctlVars, sweepVars, repVars, meas, gen_is_connected, mainVars, handleVars,
      spectrumVars,
      timebaseVars>>

\* return val_float (line 216)
ReturnFiltered(val_float) ==
    IF val_float \in {Float("1E+30"), Float("9.9E37")} THEN None ELSE val_float
ReturnValue(val_float) == val_float

\* lines 219-221: any exception but ValueError ends the call with None
AbortRetries == rd_pc' = "sleep" /\ rd_ret' = rd_ret
Abort == rd_pc' = "done" /\ rd_ret' = None

\* the fetch raised (what close() raises when the transport has failed and the
\* connection cannot be closed): val_str is not assigned, line 219 takes it
FetchRaised == Abort /\ last_val_str' = last_val_str

\* lines 217-218 and 222: ValueError is passed over, the loop goes on after the sleep
RetryGivesUp == rd_pc' = "done" /\ rd_ret' = None
RetryLater == rd_pc' = "sleep" /\ rd_ret' = rd_ret

\* lines 213-222, once scope_measure_func has returned val_str
ParseNoneNotReady(val_str) ==
    /\ last_val_str' = val_str
    /\ IF val_str = None THEN RetryLater
       ELSE IF Parseable(val_str.text)
       THEN rd_pc' = "done" /\ rd_ret' = ReturnValue(Float(val_str.text))
       ELSE RetryLater
Parse(val_str) ==
    /\ last_val_str' = val_str
    /\ IF val_str = None THEN Abort                     \* float(None): TypeError
       ELSE IF Parseable(val_str.text)
       THEN rd_pc' = "done" /\ rd_ret' = ReturnValue(Float(val_str.text))
       ELSE RetryLater

\* the query the sampler's first read makes
MeasureQuery == Cmd("scope", "MEASure1:PKPK?")

\* lines 211-212 and 224-225: the loop test, the call of the fetch and, in it,
\* _ensure_connection (owon_vds_scpi.py 256); the timeout exit
ReaderWhile ==
    /\ rd_pc = "while"
    /\ IF elapsed < timeout_sec
       THEN /\ attempts' = attempts + 1
            /\ IF scope_is_connected
               THEN rd_pc' = "fetch" /\ q_pc' = "drain" /\ rd_ret' = rd_ret
               ELSE Abort /\ q_pc' = q_pc                \* ConnectionError
       ELSE /\ rd_pc' = "done" /\ rd_ret' = None
            /\ attempts' = attempts /\ q_pc' = q_pc
    /\ last_recv' = "none" /\ recv_calls' = 0
    /\ UNCHANGED <<sweepFrame, scope_is_connected, log>>
    /\ UNCHANGED <<timeout_sec, elapsed, last_val_str, rx_pending, peer_closed>>

\* what self._socket.recv(4096) of the drain loop can do (timeout 0.1 s)
DrainOutcomes ==
    IF rx_pending > 0 THEN {"data", "error", CloseError("scope")}
    ELSE IF peer_closed THEN {"empty"}
    ELSE {"timeout", "empty", "error", CloseError("scope")}

\* owon_vds_scpi.py 263-267 and 282-285: one recv of `while True: recv(4096)`
QueryDrain ==
    /\ rd_pc = "fetch" /\ q_pc = "drain"
    /\ \E o \in DrainOutcomes :
         /\ last_recv' = IF o = CloseError("scope") THEN "error" ELSE o
         /\ recv_calls' = (recv_calls + 1) % RecvWrap
         /\ rx_pending' = IF o = "data" THEN rx_pending - 1 ELSE rx_pending
         /\ peer_closed' = (peer_closed \/ o = "empty")
         /\ scope_is_connected' = (o # "error")          \* self.disconnect()
         /\ CASE o \in {"data", "empty"} ->               \* the loop goes on
                   q_pc' = "drain" /\ UNCHANGED <<rd_pc, rd_ret, last_val_str>>
              [] o = "timeout" ->                         \* except socket.timeout: pass
                   q_pc' = "send" /\ UNCHANGED <<rd_pc, rd_ret, last_val_str>>
              [] o = "error" -> q_pc' = "off" /\ Parse(None)
              [] o = CloseError("scope") -> q_pc' = "off" /\ FetchRaised
    /\ UNCHANGED <<sweepFrame, log, timeout_sec, elapsed, attempts>>

\* owon_vds_scpi.py 269-270 and 279-285: sendall (timeout 10 s); socket.timeout
\* returns None with the connection kept, any other error closes it
QuerySend ==
    /\ rd_pc = "fetch" /\ q_pc = "send"
    /\ \E o \in {"sent", "timeout", "error", CloseError("scope")} :
         /\ log' = IF o = "sent" THEN Append(log, MeasureQuery) ELSE log
         /\ scope_is_connected' = (o # "error")
         /\ CASE o = "sent" ->
                   q_pc' = "recv" /\ UNCHANGED <<rd_pc, rd_ret, last_val_str>>
              [] o \in {"timeout", "error"} -> q_pc' = "off" /\ Parse(None)
              [] o = CloseError("scope") -> q_pc' = "off" /\ FetchRaised
    /\ UNCHANGED <<sweepFrame, timeout_sec, elapsed, attempts>>
    /\ UNCHANGED <<last_recv, recv_calls, rx_pending, peer_closed>>

Min(a, b) == IF a < b THEN a ELSE b

\* owon_vds_scpi.py 272-285: recv(65536) (timeout 10 s), decode and strip; then
\* lines 213-222 of the reader
QueryRecv ==
    /\ rd_pc = "fetch" /\ q_pc = "recv"
    /\ \/ \E raw \in RawResponses :
            /\ last_recv' = "data" /\ Parse(Text(Strip(raw)))
            /\ UNCHANGED <<rx_pending, peer_closed, scope_is_connected>>
       \/ /\ last_recv' = "empty" /\ Parse(Text(Strip("")))
          /\ peer_closed' = TRUE
          /\ UNCHANGED <<rx_pending, scope_is_connected>>
       \/ /\ last_recv' = "timeout" /\ Parse(None)
          /\ rx_pending' \in {rx_pending, Min(rx_pending + 1, MaxPending)}
          /\ UNCHANGED <<peer_closed, scope_is_connected>>
       \/ /\ last_recv' = "error" /\ Parse(None)
          /\ scope_is_connected' = FALSE
          /\ UNCHANGED <<rx_pending, peer_closed>>
       \/ /\ last_recv' = "error" /\ FetchRaised           \* close() raised
          /\ UNCHANGED <<rx_pending, peer_closed, scope_is_connected>>
    /\ q_pc' = "off"
    /\ recv_calls' = (recv_calls + 1) % RecvWrap
    /\ \E d \in 0..MaxFetchTicks : elapsed' = elapsed + d
    /\ UNCHANGED <<sweepFrame, log, timeout_sec, attempts>>

\* line 222: time.sleep(0.25)
ReaderSleep ==
    /\ rd_pc = "sleep"
    /\ elapsed' = elapsed + 1
    /\ rd_pc' = "while"
    /\ UNCHANGED <<sweepFrame, scope_is_connected, log>>
    /\ UNCHANGED <<timeout_sec, attempts, last_val_str, rd_ret, queryVars>>

PollingNext ==
    \/ ReaderWhile
    \/ QueryDrain
    \/ QuerySend
    \/ QueryRecv
    \/ ReaderSleep

\* the thread that runs the call keeps running
PollingSpec == PollingInit /\ [][PollingNext]_vars /\ WF_vars(PollingNext)

\* ------------------------------------------------------------------ claims C11-C15, C18
\* the step in which the fetch returns a string to the reader
FetchReturnsText == q_pc = "recv" /\ last_recv' \in {"data", "empty"}
\* the step in which the fetch returns None or raises
FetchFails ==
    \/ rd_pc = "fetch" /\ q_pc' = "off" /\ ~FetchReturnsText
    \/ rd_pc = "while" /\ elapsed < timeout_sec /\ ~scope_is_connected

\* C11: the reader returns the parsed value of the first parseable response as it
\* is, overload values (1e30 and above) included: the step that receives a parseable
\* response ends the call with float() of that response, and a call that ended with
\* a value ended with float() of the last response it saw.
C11_ReturnsParsedValueUnchanged ==
    [][(FetchReturnsText /\ Parseable(last_val_str'.text))
         => (rd_pc' = "done" /\ rd_ret' = Float(last_val_str'.text))]_vars

\* an overload value came back from a call, after one retry
C11_Witness ==
    rd_pc = "done" /\ attempts = 2 /\ last_val_str = Text("9.9E37")
    /\ rd_ret = Num(99000000, 0)

\* C12: a response that is not a number never ends the call: the reader sleeps,
\* tests the timeout again and, when it has not elapsed, calls the fetch again.
C12_UnparseableIsRetried ==
    [][/\ (FetchReturnsText /\ ~Parseable(last_val_str'.text))
            => (rd_pc' = "sleep" /\ rd_ret' = rd_ret)
       /\ rd_pc = "sleep" => (rd_pc' = "while" /\ elapsed' = elapsed + 1)
       /\ (rd_pc = "while" /\ elapsed < timeout_sec) => attempts' = attempts + 1]_vars

\* a number was returned by the third fetch of a call
C12_Witness ==
    rd_pc = "done" /\ attempts = 3 /\ rd_ret = Num(0, 2)

\* C13: when the fetch fails (it raises ConnectionError, or its transport failed and
\* it returned None), the call ends at once with None: no sleep, no other fetch.
C13_TransportFailureAborts ==
    [][/\ FetchFails => (rd_pc' = "done" /\ rd_ret' = None)
       /\ rd_pc = "done" => attempts' = attempts]_vars

\* a call ended by a transport error of its second fetch, before the timeout
C13_Witness ==
    /\ rd_pc = "done" /\ rd_ret = None /\ last_recv = "error" /\ ~scope_is_connected
    /\ attempts = 2 /\ elapsed < timeout_sec

\* the fetch attempts of a call are bounded by timeout / sleep interval, and the
\* timeout exit returns None
AttemptsBounded ==
    /\ attempts <= timeout_sec
    /\ (rd_pc = "done" /\ elapsed >= timeout_sec /\ last_val_str # None
          /\ ~Parseable(last_val_str.text)) => rd_ret = None

\* C14: every call of the reader terminates.
C14_EveryCallTerminates == <>(rd_pc = "done")

\* a float that is a number
Finite(v) == v \notin {NaN, Inf}

\* C15: a value returned as a success is a finite number.
C15_SuccessIsFinite == (rd_pc = "done" /\ rd_ret # None) => Finite(rd_ret)

\* C18: every scope query terminates, whatever the socket does: a query that has
\* started its receive-buffer drain loop leaves _query_command.
C18_QueryTerminates == (q_pc # "off") ~> (q_pc = "off")

\* ================================================================== configuration
\* The configuration stage of the two main programs: load_config, the question
\* "modify?", get_user_config, the confirmation, and the start of the sweep
\* (run_full_experiment) or of the analysis (run_spectrum_analysis).  Both
\* instruments are connected (main() connects before it loads the configuration).

\* what the operator may type at a numeric prompt ("": keep the default)
TypedNumbers == {"", "x", "-1", "0", "1", "4", "nan"}
\* what the operator may type at the scale prompt
TypedScales == {"", "lin", "log", "x"}

\* a float of the configuration that is a whole number of Hz
Hz(n) == [v |-> n]

\* the strings float() accepts among TypedNumbers
IsNumber(t) == t \in {"-1", "0", "1", "4", "nan"}
ToFloat(t) ==
    CASE t = "-1" -> Hz(-1)
      [] t = "0" -> Hz(0)
      [] t = "1" -> Hz(1)
      [] t = "4" -> Hz(4)
      [] t = "nan" -> NaN

\* a <= b and a > b of two floats: a comparison with nan is False
Le(a, b) == a # NaN /\ b # NaN /\ a.v <= b.v
Gt(a, b) == a # NaN /\ b # NaN /\ a.v > b.v

\* the content of the JSON file when it holds an object: json.load accepts any
\* values
PersistedConfigs(prog) ==
    IF prog = "bode"
    THEN [scale : {"lin", "log"}, f_start : {Hz(0), Hz(1), Hz(4)},
          f_stop : {Hz(1), Hz(4)}]
    ELSE [f_start : {Hz(0), Hz(4)}, f_stop : {Hz(1), Hz(4)},
          resolution_hz : {Hz(-1), Hz(0), Hz(1)}]

ConfigInit ==
    /\ SweepOff
    /\ ReaderOff
    /\ HandlesOff
    /\ SpectrumOff
    /\ TimebaseOff
    /\ gen_is_connected = TRUE /\ scope_is_connected = TRUE
    /\ log = <<>>
    /\ program \in {"bode", "spectrum"}
    /\ cf_pc = "load"
    /\ config_to_use = None

configFrame ==
    <<ctlVars, sweepVars, repVars, meas, connVars, readerVars, queryVars, handleVars,
      spectrumVars,
      timebaseVars>>

\* load_config(): bode_core.py 107-118, spectrum_core.py 56-67.  Only
\* json.JSONDecodeError is caught: a file that holds JSON which is not an object
\* (config.update raises AttributeError) or bytes that are not UTF-8
\* (UnicodeDecodeError) ends main() before any question is asked.
load_config ==
    /\ cf_pc = "load"
    /\ \/ config_to_use' \in PersistedConfigs(program) /\ cf_pc' = "modify"
       \/ config_to_use' = config_to_use /\ cf_pc' = "exit"
    /\ UNCHANGED <<configFrame, log, program>>

\* bode_plotter.py 83-88, spectrum_analyzer.py 69-74
AskModify ==
    /\ cf_pc = "modify"
    /\ \E modify \in {"s", "n"} :
         cf_pc' = IF modify # "s" THEN "confirm"
                  ELSE IF program = "bode" THEN "scale" ELSE "f_start"
    /\ UNCHANGED <<configFrame, log, program, config_to_use>>

\* the value a numeric prompt yields: input(...) or the default
Entered(t, default) == IF t = "" THEN default ELSE ToFloat(t)

\* bode_core.py 131-137
AskScale ==
    /\ cf_pc = "scale"
    /\ \E t \in TypedScales :
         LET scale == IF t = "" THEN config_to_use.scale ELSE t
         IN  IF scale \in {"lin", "log"}
             THEN /\ config_to_use' = [config_to_use EXCEPT !.scale = scale]
                  /\ cf_pc' = "f_start"
             ELSE UNCHANGED <<config_to_use, cf_pc>>
    /\ UNCHANGED <<configFrame, log, program>>

\* bode_core.py 143: the start frequency the prompt refuses
RefuseFStart(scale, f_start) == scale = "log" /\ Le(f_start, Hz(0))

\* bode_core.py 138-149 (a loop); spectrum_core.py 80 (no test, ValueError leaves
\* get_user_config and ends main())
AskFStart ==
    /\ cf_pc = "f_start"
    /\ \E t \in TypedNumbers :
         IF t # "" /\ ~IsNumber(t)
         THEN /\ cf_pc' = IF program = "bode" THEN "f_start" ELSE "exit"
              /\ config_to_use' = config_to_use
         ELSE LET f_start == Entered(t, config_to_use.f_start)
              IN  IF program = "bode" /\ RefuseFStart(config_to_use.scale, f_start)
                  THEN UNCHANGED <<config_to_use, cf_pc>>
                  ELSE /\ config_to_use' = [config_to_use EXCEPT !.f_start = f_start]
                       /\ cf_pc' = "f_stop"
    /\ UNCHANGED <<configFrame, log, program>>

\* bode_core.py 150-161 (a loop); spectrum_core.py 81
AskFStop ==
    /\ cf_pc = "f_stop"
    /\ \E t \in TypedNumbers :
         IF t # "" /\ ~IsNumber(t)
         THEN /\ cf_pc' = IF program = "bode" THEN "f_stop" ELSE "exit"
              /\ config_to_use' = config_to_use
         ELSE LET f_stop == Entered(t, config_to_use.f_stop)
              IN  IF program = "bode" /\ Le(f_stop, config_to_use.f_start)
                  THEN UNCHANGED <<config_to_use, cf_pc>>
                  ELSE /\ config_to_use' = [config_to_use EXCEPT !.f_stop = f_stop]
                       /\ cf_pc' = IF program = "bode" THEN "rest" ELSE "resolution_hz"
    /\ UNCHANGED <<configFrame, log, program>>

\* spectrum_core.py 82
AskResolution ==
    /\ cf_pc = "resolution_hz"
    /\ \E t \in TypedNumbers :
         IF t # "" /\ ~IsNumber(t)
         THEN cf_pc' = "exit" /\ config_to_use' = config_to_use
         ELSE /\ config_to_use' =
                   [config_to_use EXCEPT !.resolution_hz = Entered(t, @)]
              /\ cf_pc' = "rest"
    /\ UNCHANGED <<configFrame, log, program>>

\* bode_core.py 162-182, spectrum_core.py 83-87: the other prompts, none of which
\* changes the three fields; int() or float() of a string that is not a number
\* raises ValueError, which ends main().  Then bode_plotter.py 90-94,
\* spectrum_analyzer.py 76-80.
AskRest ==
    /\ cf_pc = "rest"
    /\ \E ok \in BOOLEAN : cf_pc' = IF ok THEN "confirm" ELSE "exit"
    /\ UNCHANGED <<configFrame, log, program, config_to_use>>

\* bode_plotter.py 99-101, spectrum_analyzer.py 85-87
Confirm ==
    /\ cf_pc = "confirm"
    /\ \E confirm \in {"s", "n"} : cf_pc' = IF confirm = "s" THEN "run" ELSE "done"
    /\ UNCHANGED <<configFrame, log, program, config_to_use>>

\* The first instrument command of the run.  bode_plotter.py 106: run_full_experiment
\* calls setup_initial_state, whose first command is line 308 of bode_core.py.
\* spectrum_analyzer.py 92: run_spectrum_analysis computes get_best_timebase
\* (1.0 / (resolution_hz * 10.0), ZeroDivisionError for 0, nan for nan), waits for
\* Enter, and sends *STOP (spectrum_core.py 146-178).
StartRun ==
    /\ cf_pc = "run"
    /\ IF program = "bode"
       THEN log' = Append(log, SetupCmds[1]) /\ cf_pc' = "started"
       ELSE IF config_to_use.resolution_hz = Hz(0)
       THEN log' = log /\ cf_pc' = "exit"
       ELSE log' = Append(log, Cmd("scope", "*STOP")) /\ cf_pc' = "started"
    /\ UNCHANGED <<configFrame, program, config_to_use>>

ConfigNext ==
    \/ load_config
    \/ AskModify
    \/ AskScale
    \/ AskFStart
    \/ AskFStop
    \/ AskResolution
    \/ AskRest
    \/ Confirm
    \/ StartRun

ConfigSpec == ConfigInit /\ [][ConfigNext]_vars

\* ------------------------------------------------------------------ claim C16
\* the configuration invariants
ValidConfig(prog, c) ==
    /\ Gt(c.f_stop, c.f_start)
    /\ prog = "bode" => (c.scale = "log" => Gt(c.f_start, Hz(0)))
    /\ prog = "spectrum" => Gt(c.resolution_hz, Hz(0))

\* C16: a configuration that violates the configuration invariants is rejected at
\* configuration time: when an instrument command of the sweep or of the analysis
\* has been issued, the configuration in use satisfies the invariants.
C16_InvalidConfigNeverRuns == log # <<>> => ValidConfig(program, config_to_use)

\* ================================================================== connections
\* OwonVDS_SCPI and OwonDGE_SCPI driven by any sequence of connect, disconnect,
\* set (_send_command) and query (_query_command) calls, each of which may fail.
\* Here a scope query is one step: it returns (C18 is about the query that does not).

MaxWire == 2

ConnectionInit ==
    /\ SweepOff
    /\ ReaderOff
    /\ MainOff
    /\ SpectrumOff
    /\ TimebaseOff
    /\ gen_is_connected = FALSE /\ scope_is_connected = FALSE      \* __init__
    /\ scope_socket = "None" /\ gen_instrument = "None"
    /\ last_op = None
    /\ log = <<>>

connectionFrame ==
    <<ctlVars, sweepVars, repVars, meas, readerVars, queryVars, mainVars, spectrumVars,
      timebaseVars>>

Devices == {"gen", "scope"}
Handle(dev) == IF dev = "gen" THEN gen_instrument ELSE scope_socket

\* the fields of one connection object after an operation
SetConnection(dev, flag, handle) ==
    /\ gen_is_connected' = IF dev = "gen" THEN flag ELSE gen_is_connected
    /\ scope_is_connected' = IF dev = "scope" THEN flag ELSE scope_is_connected
    /\ gen_instrument' = IF dev = "gen" THEN handle ELSE gen_instrument
    /\ scope_socket' = IF dev = "scope" THEN handle ELSE scope_socket

Op(dev, kind, result) == [dev |-> dev, kind |-> kind, result |-> result]

\* connect(): owon_vds_scpi.py 216-230, owon_dge_scpi.py 365-381.  A failure may
\* come before or after the new socket / resource was stored in the object.
connect ==
    \E dev \in Devices :
        /\ IF Connected(dev)
           THEN /\ SetConnection(dev, TRUE, Handle(dev))
                /\ last_op' = Op(dev, "connect", "returned")
           ELSE \/ /\ SetConnection(dev, TRUE, "object")
                   /\ last_op' = Op(dev, "connect", "returned")
                \/ \E h \in {Handle(dev), "object"} :
                     /\ SetConnection(dev, FALSE, h)
                     /\ last_op' = Op(dev, "connect", "ConnectionError")
        /\ UNCHANGED <<connectionFrame, log>>

\* close() of the stored handle raised: the statements after it are not reached
CloseRaises(dev, kind) ==
    /\ Handle(dev) = "object"
    /\ SetConnection(dev, Connected(dev), Handle(dev))
    /\ last_op' = Op(dev, kind, CloseError(dev))

\* disconnect(): owon_vds_scpi.py 232-236, owon_dge_scpi.py 383-388
disconnect ==
    \E dev \in Devices :
        /\ \/ /\ SetConnection(dev, FALSE, "None")
              /\ last_op' = Op(dev, "disconnect", "returned")
           \/ CloseRaises(dev, "disconnect")
        /\ UNCHANGED <<connectionFrame, log>>

\* _ensure_connection raises: owon_vds_scpi.py 238-240, owon_dge_scpi.py 390-392
RefusedNever(dev) == FALSE
Refused(dev) == ~Connected(dev)

\* _send_command: owon_vds_scpi.py 242-252, owon_dge_scpi.py 394-403
SetCommand(dev) == IF dev = "gen" THEN GenOffCmd ELSE Cmd("scope", "*RUN")

\* owon_vds_scpi.py 250-252, owon_dge_scpi.py 401-403: the write raised
SendFailure(dev) ==
    /\ SetConnection(dev, FALSE, "None")   \* self.disconnect()
    /\ last_op' = Op(dev, "set", "returned")

send_command ==
    \E dev \in Devices :
        /\ IF Refused(dev)
           THEN /\ SetConnection(dev, Connected(dev), Handle(dev))
                /\ log' = log
                /\ last_op' = Op(dev, "set", "ConnectionError")
           ELSE \/ /\ Len(log) < MaxWire
                   /\ log' = Append(log, SetCommand(dev))
                   /\ SetConnection(dev, Connected(dev), Handle(dev))
                   /\ last_op' = Op(dev, "set", "returned")
                \/ /\ log' = log                          \* the write raised
                   /\ \/ SendFailure(dev)
                      \/ CloseRaises(dev, "set")
        /\ UNCHANGED connectionFrame

\* _query_command: owon_vds_scpi.py 254-285, owon_dge_scpi.py 405-419.  The scope
\* keeps its connection on socket.timeout, of sendall or of recv; the generator's
\* query raises a VISA error on a timeout, which is not socket.timeout, and
\* disconnects.  What close() raises in self.disconnect() leaves the call.
IdnQuery(dev) == Cmd(dev, "*IDN?")

query_command ==
    \E dev \in Devices :
        /\ IF Refused(dev)
           THEN /\ SetConnection(dev, Connected(dev), Handle(dev))
                /\ log' = log
                /\ last_op' = Op(dev, "query", "ConnectionError")
           ELSE \/ /\ Len(log) < MaxWire
                   /\ log' = Append(log, IdnQuery(dev))
                   /\ \/ /\ SetConnection(dev, Connected(dev), Handle(dev))
                         /\ last_op' = Op(dev, "query", "response")
                      \/ /\ dev = "scope"                 \* except socket.timeout
                         /\ SetConnection(dev, Connected(dev), Handle(dev))
                         /\ last_op' = Op(dev, "query", "None")
                      \/ /\ SetConnection(dev, FALSE, "None")
                         /\ last_op' = Op(dev, "query", "None")
                      \/ CloseRaises(dev, "query")
                \/ /\ log' = log                          \* nothing was sent
                   /\ \/ /\ SetConnection(dev, FALSE, "None")
                         /\ last_op' = Op(dev, "query", "None")
                      \/ /\ dev = "scope"                 \* except socket.timeout
                         /\ SetConnection(dev, Connected(dev), Handle(dev))
                         /\ last_op' = Op(dev, "query", "None")
                      \/ CloseRaises(dev, "query")
        /\ UNCHANGED connectionFrame

ConnectionNext ==
    \/ connect
    \/ disconnect
    \/ send_command
    \/ query_command

ConnectionSpec == ConnectionInit /\ [][ConnectionNext]_vars

\* ------------------------------------------------------------------ claim C17
\* C17: a set or a query called on a connection whose connected flag is false raises
\* ConnectionError, transmits nothing and leaves both connection objects as they
\* were, after any sequence of connect, disconnect and failed operations.
C17_DisconnectedFailsFast ==
    [][(last_op'.kind \in {"set", "query"} /\ ~Connected(last_op'.dev))
         => (/\ last_op'.result = "ConnectionError"
             /\ log' = log
             /\ UNCHANGED <<connVars, scope_socket, gen_instrument>>)]_vars

\* a query refused on the scope, whose connection an earlier failed query closed
\* after commands had gone out
C17_Witness ==
    /\ last_op = Op("scope", "query", "ConnectionError")
    /\ ~scope_is_connected /\ scope_socket = "None" /\ Len(log) = MaxWire

\* ================================================================== spectrum analysis
\* run_spectrum_analysis(scope, config) of spectrum_core.py, as spectrum_analyzer.py
\* calls it.  One step is one blocking call (the prompt, a command with its settle
\* sleep, a query) with the computation that follows it.

\* N = 500 (spectrum_core.py 148) and the 500 of get_adc_data (owon_vds_scpi.py 320)
N == 500
AdcLength == 500

\* a bytes object of n bytes, or an array of n samples
Bytes(n) == [len |-> n]

\* what may come back from the *ADC? query: nothing (None), or so many bytes
RawDownloads == {None, Bytes(0), Bytes(499), Bytes(500), Bytes(501)}

\* what the scope may answer to the two read-back queries
ScaleResponses == {"0.5", "1", "?"}
ProbeResponses == {"X1", "X10", "?"}
\* float(v_div_str) and int(probe_str.upper().replace('X', '')) succeed
IsScale(t) == t \in {"0.5", "1"}
IsProbe(t) == t \in {"X1", "X10"}
\* float(v_div_str), line 190, in millivolts
ScaleMillivolts(t) == [mv |-> IF t = "0.5" THEN 500 ELSE 1000]
\* int(probe_str.upper().replace('X', '')), line 192
ProbeInt(t) == IF t = "X1" THEN 1 ELSE 10
\* line 199: (8.0 * v_div_val * probe_val) / 255.0, in volts
VoltsPerStep(v_div, probe) == [num |-> 8 * v_div.mv * probe, den |-> 255 * 1000]

\* config['window'] as get_user_config leaves it (default, or the answer in capitals)
WindowNames == {"HANNing", "RECTANGLE"}
\* "HANN" in config['window']
HasHann(t) == t \in {"HANNing", "HANNING"}
\* np.hanning(n) and np.ones(n)
Hanning(n) == [shape |-> "hanning", len |-> n]
Ones(n) == [shape |-> "ones", len |-> n]

SpectrumConfigs ==
    [num_averages : 1..MaxAverages, resolution_hz : {0, 1}, window : WindowNames]

SpectrumInit ==
    /\ SweepOff
    /\ ReaderOff
    /\ MainOff
    /\ HandlesOff
    /\ TimebaseOff
    /\ gen_is_connected = FALSE
    /\ scope_is_connected \in BOOLEAN
    /\ log = <<>>
    /\ sp_pc = "timebase" /\ sp_config \in SpectrumConfigs /\ sp_i = 0
    /\ downloads = <<>> /\ all_complex_ffts = <<>> /\ sp_ret = "pending"
    /\ v_div_val = None /\ volts_per_step = None /\ window = None

spectrumFrame ==
    <<ctlVars, sweepVars, repVars, meas, readerVars, queryVars, mainVars, handleVars,
      timebaseVars>>

\* an exception leaves run_spectrum_analysis
SpRaise(e) == sp_pc' = "raised" /\ sp_ret' = e
\* return None, None, None, config
SpReturnNone == sp_pc' = "returned" /\ sp_ret' = "None"

\* line 146 and 105-111: get_best_timebase divides by resolution_hz * 10.0
ComputeTimebaseStopsFirst ==
    /\ sp_pc = "timebase"
    /\ IF sp_config.resolution_hz = 0
       THEN SpRaise("ZeroDivisionError")
       ELSE sp_pc' = "prompt" /\ sp_ret' = sp_ret
    /\ log' = IF scope_is_connected THEN Append(log, Cmd("scope", "*STOP")) ELSE log
    /\ UNCHANGED <<spectrumFrame, connVars>>
    /\ UNCHANGED <<sp_config, sp_i, downloads, all_complex_ffts>>
    /\ UNCHANGED spLocals
ComputeTimebase ==
    /\ sp_pc = "timebase"
    /\ IF sp_config.resolution_hz = 0
       THEN SpRaise("ZeroDivisionError")
       ELSE sp_pc' = "prompt" /\ sp_ret' = sp_ret
    /\ UNCHANGED <<spectrumFrame, connVars, log>>
    /\ UNCHANGED <<sp_config, sp_i, downloads, all_complex_ffts>>
    /\ UNCHANGED spLocals

\* lines 169-173: input(); KeyboardInterrupt is caught here
Prompt ==
    /\ sp_pc = "prompt"
    /\ \/ sp_pc' = "stop0" /\ sp_ret' = sp_ret
       \/ SpReturnNone
    /\ UNCHANGED <<spectrumFrame, connVars, log>>
    /\ UNCHANGED <<sp_config, sp_i, downloads, all_complex_ffts>>
    /\ UNCHANGED spLocals

\* a set command sent from position `at`, outside any try: what _send_command
\* raises leaves the function
SendAt(at, c, next) ==
    /\ sp_pc = at
    /\ \E o \in SendOutcomes("scope") :
         /\ AfterSend(c, o)
         /\ IF Raised(o) THEN SpRaise(o)
            ELSE sp_pc' = next /\ sp_ret' = sp_ret
    /\ UNCHANGED spectrumFrame
    /\ UNCHANGED <<sp_config, sp_i, downloads, all_complex_ffts>>
    /\ UNCHANGED spLocals

\* lines 178-179
StopToConfigureSkipsTimebase == SendAt("stop0", Cmd("scope", "*STOP"), "get_scale")
StopToConfigure == SendAt("stop0", Cmd("scope", "*STOP"), "set_scale")
\* line 181
SetTimebase == SendAt("set_scale", Cmd("scope", "TIMebase:SCALE"), "get_scale")

\* a query of the scope as its caller sees it: ConnectionError, None (timeout, or a
\* transport error that closed the connection), or the text received
QueryResults(responses) ==
    IF scope_is_connected
    THEN [value : responses, connected : {TRUE}, sent : {TRUE}]
         \cup [value : {"None"}, connected : BOOLEAN, sent : BOOLEAN]
    ELSE [value : {"ConnectionError"}, connected : {FALSE}, sent : {FALSE}]

\* lines 188-195: v_div and probe are read back inside try / except Exception
ReadBack ==
    /\ sp_pc \in {"get_scale", "get_probe"}
    /\ LET scale == sp_pc = "get_scale"
           c == Cmd("scope", IF scale THEN "CHANnel1:SCALE?" ELSE "CHANnel1:PROBe?")
       IN  \E r \in QueryResults(IF scale THEN ScaleResponses ELSE ProbeResponses) :
             /\ log' = IF r.sent THEN Append(log, c) ELSE log
             /\ scope_is_connected' = r.connected
             /\ IF (scale /\ IsScale(r.value)) \/ (~scale /\ IsProbe(r.value))
                THEN /\ sp_pc' = (IF scale THEN "get_probe" ELSE "loop")
                     /\ sp_ret' = sp_ret
                     /\ v_div_val' = IF scale THEN ScaleMillivolts(r.value) ELSE v_div_val
                     /\ volts_per_step' =
                            IF scale THEN volts_per_step
                            ELSE VoltsPerStep(v_div_val, ProbeInt(r.value))
                ELSE SpReturnNone /\ UNCHANGED <<v_div_val, volts_per_step>>
    /\ UNCHANGED <<spectrumFrame, gen_is_connected>>
    /\ UNCHANGED <<sp_config, sp_i, downloads, all_complex_ffts, window>>

\* line 203: for i in range(config['num_averages'])
NextAcquisition ==
    /\ sp_pc = "loop"
    /\ IF sp_i < sp_config.num_averages
       THEN sp_i' = sp_i + 1 /\ sp_pc' = "run"
       ELSE sp_i' = sp_i /\ sp_pc' = "final_run"
    /\ UNCHANGED <<spectrumFrame, connVars, log>>
    /\ UNCHANGED <<sp_config, downloads, all_complex_ffts, sp_ret>>
    /\ UNCHANGED spLocals

\* lines 206-210
RunAcquisitionThenDownload == SendAt("run", Cmd("scope", "*RUN"), "download")
RunAcquisition == SendAt("run", Cmd("scope", "*RUN"), "stop")
\* lines 212-216
StopAcquisition == SendAt("stop", Cmd("scope", "*STOP"), "download")

\* get_adc_data, owon_vds_scpi.py 307-323: None for no data or fewer than 500
\* bytes, else the first 500 bytes as an array
get_adc_data(raw) ==
    IF raw = None \/ raw.len = 0 THEN None
    ELSE IF raw.len < AdcLength THEN None
    ELSE Bytes(Min(raw.len, AdcLength))

\* line 221: the test that discards a repetition
DiscardNever(raw_data) == FALSE
Discard(raw_data) == raw_data = None \/ raw_data.len # N

\* lines 221-231: the name window after the body of one repetition
WindowScopedToRepetition(raw_data) ==
    IF Discard(raw_data) THEN None
    ELSE IF HasHann(sp_config.window) THEN Hanning(N) ELSE Ones(N)
WindowAfter(raw_data) ==
    IF Discard(raw_data) THEN window
    ELSE IF HasHann(sp_config.window) THEN Hanning(N) ELSE Ones(N)

\* lines 219-236: the download, the test, the spectrum appended.  The query of
\* get_adc_data is outside its try: ConnectionError leaves the function, and so does
\* what close() raises when the transport fails and the connection cannot be closed.
Download ==
    /\ sp_pc = "download"
    /\ UNCHANGED <<v_div_val, volts_per_step>>
    /\ IF ~scope_is_connected
       THEN /\ SpRaise("ConnectionError")
            /\ UNCHANGED <<connVars, log, downloads, all_complex_ffts, window>>
       ELSE \/ \E sent \in BOOLEAN :
                 /\ log' = IF sent THEN Append(log, Cmd("scope", "*ADC? CH1")) ELSE log
                 /\ SpRaise(CloseError("scope"))
                 /\ UNCHANGED <<connVars, downloads, all_complex_ffts, window>>
            \/ \E raw \in RawDownloads, dropped \in BOOLEAN, sent \in BOOLEAN :
              /\ dropped => raw = None
              /\ (raw # None) => sent
              /\ log' = IF sent THEN Append(log, Cmd("scope", "*ADC? CH1")) ELSE log
              /\ scope_is_connected' = ~dropped
              /\ gen_is_connected' = gen_is_connected
              /\ downloads' = Append(downloads,
                    [rep |-> sp_i, raw |-> raw,
                     factor |-> IF Discard(get_adc_data(raw)) THEN None
                                ELSE volts_per_step])
              /\ window' = WindowAfter(get_adc_data(raw))
              /\ all_complex_ffts' =
                    IF Discard(get_adc_data(raw)) THEN all_complex_ffts
                    ELSE Append(all_complex_ffts, sp_i)
              /\ sp_pc' = "loop" /\ sp_ret' = sp_ret
    /\ UNCHANGED <<spectrumFrame, sp_config, sp_i>>

\* lines 238-258: RUN, then None when no spectrum was kept, else the averages
FinalRun ==
    /\ sp_pc = "final_run"
    /\ \E o \in SendOutcomes("scope") :
         /\ AfterSend(Cmd("scope", "*RUN"), o)
         /\ IF Raised(o) THEN SpRaise(o)
            ELSE IF all_complex_ffts = <<>> THEN SpReturnNone
            ELSE IF window = None THEN SpRaise("UnboundLocalError")    \* line 250
            ELSE sp_pc' = "returned" /\ sp_ret' = "result"
    /\ UNCHANGED spectrumFrame
    /\ UNCHANGED <<sp_config, sp_i, downloads, all_complex_ffts>>
    /\ UNCHANGED spLocals

SpectrumBlockingPcs ==
    {"stop0", "set_scale", "get_scale", "get_probe", "run", "stop", "download",
     "final_run"}

\* the command or the query of a position of run_spectrum_analysis
SpectrumCmd(at) ==
    CASE at \in {"stop0", "stop"} -> Cmd("scope", "*STOP")
      [] at = "set_scale" -> Cmd("scope", "TIMebase:SCALE")
      [] at = "get_scale" -> Cmd("scope", "CHANnel1:SCALE?")
      [] at = "get_probe" -> Cmd("scope", "CHANnel1:PROBe?")
      [] at \in {"run", "final_run"} -> Cmd("scope", "*RUN")
      [] at = "download" -> Cmd("scope", "*ADC? CH1")

\* Ctrl-C while the thread is blocked after the prompt (a settle sleep, a socket
\* call): no handler in run_spectrum_analysis, the try of 188 catches Exception
\* only.  The interrupt finds the command of the position not yet written, or
\* written (the pause of _send_command, the recv of _query_command): nothing is
\* assigned by the interrupted statement.
SpectrumInterrupt ==
    /\ sp_pc \in SpectrumBlockingPcs
    /\ SpRaise("KeyboardInterrupt")
    /\ \E sent \in BOOLEAN :
         /\ sent => scope_is_connected
         /\ log' = IF sent THEN Append(log, SpectrumCmd(sp_pc)) ELSE log
    /\ UNCHANGED <<spectrumFrame, connVars>>
    /\ UNCHANGED <<sp_config, sp_i, downloads, all_complex_ffts>>
    /\ UNCHANGED spLocals

SpectrumNext ==
    \/ ComputeTimebase
    \/ Prompt
    \/ StopToConfigure
    \/ SetTimebase
    \/ ReadBack
    \/ NextAcquisition
    \/ RunAcquisition
    \/ StopAcquisition
    \/ Download
    \/ FinalRun
    \/ SpectrumInterrupt

SpectrumSpec == SpectrumInit /\ [][SpectrumNext]_vars

\* ------------------------------------------------------------------ claims C19, C20
\* C19: when run_spectrum_analysis returns, with or without a result, a scope that
\* is still connected has been left running: the last run/stop command it received
\* is not STOP.
C19_ScopeLeftRunning ==
    (sp_pc = "returned" /\ scope_is_connected) => RunStop # Cmd("scope", "*STOP")

\* the repetitions whose download satisfies `good`, in order
Kept(ds, good(_)) ==
    LET sel == SelectSeq(ds, LAMBDA d : good(d.raw))
    IN  [i \in 1..Len(sel) |-> sel[i].rep]

\* the buffer came and holds exactly N bytes
ExactLength(raw) == raw # None /\ raw.len = N
\* the buffer came and holds at least N bytes
FullLength(raw) == raw # None /\ raw.len >= N

\* a download, whatever came back, is attempted once per repetition and is followed
\* by the for statement: no retry, no exception, no return
DownloadNotFatal ==
    (sp_pc = "download" /\ downloads' # downloads)
        => (/\ downloads' = Append(downloads, downloads'[Len(downloads')])
            /\ downloads'[Len(downloads')].rep = sp_i
            /\ sp_i' = sp_i /\ sp_pc' = "loop" /\ sp_ret' = sp_ret)

\* C20 as stated: the spectra kept are exactly those of the repetitions whose buffer
\* came with exactly N bytes; any other repetition is discarded, without retry and
\* without ending the analysis.
C20_WrongLengthDiscarded ==
    /\ [](all_complex_ffts = Kept(downloads, ExactLength))
    /\ [][DownloadNotFatal]_vars

\* C20, amended: the spectra kept are exactly those of the repetitions whose buffer
\* came with N bytes or more (the first N are used); a repetition whose buffer is
\* absent or shorter is discarded, without retry and without ending the analysis.
C20_ShortOrAbsentDiscarded ==
    /\ [](all_complex_ffts = Kept(downloads, FullLength))
    /\ [][DownloadNotFatal]_vars

\* a result made of the second repetition only, whose buffer was longer than N,
\* after a first repetition whose buffer was too short
C20_Witness ==
    /\ sp_ret = "result" /\ Len(downloads) = 2
    /\ downloads[1].raw = Bytes(499) /\ downloads[2].raw = Bytes(501)
    /\ all_complex_ffts = <<2>>

\* ------------------------------------------------------------------ claim C21
\* every repetition of the for loop has been made and the call has ended, other than
\* by a Ctrl-C
AfterAllRepetitions ==
    /\ sp_pc \in {"returned", "raised"}
    /\ sp_ret # "KeyboardInterrupt"
    /\ Len(downloads) = sp_config.num_averages

\* C21: once all the repetitions are made, run_spectrum_analysis ends without a result
\* if and only if no repetition succeeded: with at least one spectrum kept it returns
\* a result, with none it returns None (or fails).
C21_ResultIffSomeRepetitionSucceeded ==
    AfterAllRepetitions => (sp_ret = "result" <=> all_complex_ffts # <<>>)

\* ------------------------------------------------------------------ claim C22
\* setup_initial_state(scope, config) of spectrum_core.py, in program order.  It is
\* imported by spectrum_analyzer.py and called nowhere: main goes from the confirmation
\* (85-87) straight to run_spectrum_analysis (92).
SpectrumSetupCmds == <<
    Cmd("scope", "CH1:DISPlay ON"),
    Cmd("scope", "CH1:COUPling"),
    Cmd("scope", "CH1:PROBe X1"),
    Cmd("scope", "ACQuire:TYPE SAMPle"),
    Cmd("scope", "TRIGger:MODE AUTO"),
    Cmd("scope", "*RUN") >>

RECURSIVE IsSubsequence(_, _)
\* the commands of cmds were transmitted, in this order
IsSubsequence(cmds, l) ==
    IF cmds = <<>> THEN TRUE
    ELSE IF l = <<>> THEN FALSE
    ELSE IF Head(cmds) = Head(l) THEN IsSubsequence(Tail(cmds), Tail(l))
    ELSE IsSubsequence(cmds, Tail(l))

\* C22: when the operator is asked to confirm the vertical adjustment, the scope has
\* been configured: display on, coupling, probe attenuation, SAMPle acquisition, AUTO
\* trigger and RUN have been sent to it, in this order.
C22_ConfiguredBeforePrompt ==
    sp_pc = "prompt" => IsSubsequence(SpectrumSetupCmds, log)

\* ================================================================== recording, claims
\* ------------------------------------------------------------------ claim C23
\* C23: for every sampler result that is not a failure, the magnitude is computed with
\* a primary amplitude of at least 1e-9 and a positive ratio (no division by zero, no
\* logarithm of zero), nothing is raised and the point is recorded.
C23_MagnitudeAlwaysRecorded ==
    [][(pc = "record" /\ ~AnyNone(meas)) =>
            /\ exc' = "none" /\ pc' = "loop"
            /\ ~LtFloor(ClampVpp1(meas[1]))
            /\ Positive(meas[2])
            /\ results_freq' = Append(results_freq, freq_list[point_i])
            /\ results_mag' = Append(results_mag, Db(meas[2], ClampVpp1(meas[1])))]_vars

\* ------------------------------------------------------------------ the Record step
\* Lines 431-447 taken alone, from the state in which the sampler has just returned
\* for the only point of a sweep, over a wider choice of sampler results than the
\* sweep above draws: delays that give raw phases around 0, 180, 360 and 540 degrees
\* of either sign, and the not-a-number that the polling reader can return as a
\* success (float('nan'), see C15) and that passes the tests of lines 267-272.
MaxPhaseFreq == 3
PhaseFreqs == 1..MaxPhaseFreq

PhaseDelays ==
    {Num(0, s) : s \in {-541, -540, -361, -360, -181, -180, -179, -1, 0,
                        1, 179, 180, 181, 360, 361, 540}}
    \cup {NaN}

SamplerResults ==
    {<<a, b, d>> : a \in {Num(0, 1), Num(0, 2)}, b \in {Num(0, 0), Num(0, 1)},
                  d \in PhaseDelays}
    \cup {NoneTriple}

RecordInit ==
    /\ pc = "record" /\ k = 0 /\ exc = "none"
    /\ \E f \in PhaseFreqs :
         /\ config = [scale |-> "lin", f_start |-> f, f_stop |-> f + 1,
                      num_points |-> 1, num_averages |-> 1]
         /\ freq_list = Linspace(f, f + 1, 1)
    /\ point_i = 1
    /\ results_freq = <<>> /\ results_mag = <<>> /\ results_phase = <<>>
    /\ rep_i = 1 /\ vpp1 = None /\ vpp2 = None /\ delay = None
    /\ meas \in SamplerResults
    /\ vpp1_vals = IF meas = NoneTriple THEN <<>> ELSE <<meas[1]>>
    /\ vpp2_vals = IF meas = NoneTriple THEN <<>> ELSE <<meas[2]>>
    /\ delay_vals = IF meas = NoneTriple THEN <<>> ELSE <<meas[3]>>
    /\ gen_is_connected = TRUE /\ scope_is_connected = TRUE
    /\ log = SetupCmds \o PreLoopCmds \o PointCmds \o MeasureCmds
    /\ ReaderOff
    /\ MainOff
    /\ HandlesOff
    /\ SpectrumOff
    /\ TimebaseOff

RecordNext == Record

RecordSpec == RecordInit /\ [][RecordNext]_vars

\* the recorded phase phi (a fraction num/den of a degree count) is congruent modulo
\* 360 to the raw phase -d * freq * 360 and lies in (-180, 180]
Wrapped(phi, d, freq) ==
    /\ phi.den = d.den
    /\ (phi.num + d.small * freq) % (360 * d.den) = 0
    /\ phi.num > -180 * phi.den
    /\ phi.num <= 180 * phi.den

\* for a delay that is a number, the recorded phase is the wrapped raw phase
PhaseWrapsFinite ==
    \A i \in 1..Len(results_phase) :
        meas[3] # NaN => Wrapped(results_phase[i], meas[3], results_freq[i])

\* ------------------------------------------------------------------ claim C24
\* C24: every recorded phase is congruent modulo 360 to the raw phase
\* -delay * frequency * 360 it was computed from and lies in (-180, 180]: a raw phase
\* of 180 degrees is recorded as 180, one of 181 degrees as -179.
C24_PhaseWrapped ==
    \A i \in 1..Len(results_phase) :
        /\ results_phase[i] # NaN
        /\ Wrapped(results_phase[i], meas[3], results_freq[i])

\* ================================================================== timebase selection
\* get_optimal_timebase(freq) of bode_core.py, taken alone.  A time or a frequency is
\* a decimal number  m * 10^e  (m a positive whole number).

\* m * 10^e seconds
Seconds(m, e) == [m |-> m, e |-> e]
\* m * 10^e hertz
Hertz(m, e) == [m |-> m, e |-> e]

\* VDS_TIMEBASE_MAP (56-67), in the order of the dict literal
VDS_TIMEBASE_MAP == <<
    [sec |-> Seconds(5, -9), str |-> "5ns"],
    [sec |-> Seconds(1, -8), str |-> "10ns"],
    [sec |-> Seconds(2, -8), str |-> "20ns"],
    [sec |-> Seconds(5, -8), str |-> "50ns"],
    [sec |-> Seconds(1, -7), str |-> "100ns"],
    [sec |-> Seconds(2, -7), str |-> "200ns"],
    [sec |-> Seconds(5, -7), str |-> "500ns"],
    [sec |-> Seconds(1, -6), str |-> "1us"],
    [sec |-> Seconds(2, -6), str |-> "2us"],
    [sec |-> Seconds(5, -6), str |-> "5us"],
    [sec |-> Seconds(1, -5), str |-> "10us"],
    [sec |-> Seconds(2, -5), str |-> "20us"],
    [sec |-> Seconds(5, -5), str |-> "50us"],
    [sec |-> Seconds(1, -4), str |-> "100us"],
    [sec |-> Seconds(2, -4), str |-> "200us"],
    [sec |-> Seconds(5, -4), str |-> "500us"],
    [sec |-> Seconds(1, -3), str |-> "1ms"],
    [sec |-> Seconds(2, -3), str |-> "2ms"],
    [sec |-> Seconds(5, -3), str |-> "5ms"],
    [sec |-> Seconds(1, -2), str |-> "10ms"],
    [sec |-> Seconds(2, -2), str |-> "20ms"],
    [sec |-> Seconds(5, -2), str |-> "50ms"],
    [sec |-> Seconds(1, -1), str |-> "100ms"],
    [sec |-> Seconds(2, -1), str |-> "200ms"],
    [sec |-> Seconds(5, -1), str |-> "500ms"],
    [sec |-> Seconds(1, 0), str |-> "1s"],
    [sec |-> Seconds(2, 0), str |-> "2s"],
    [sec |-> Seconds(5, 0), str |-> "5s"],
    [sec |-> Seconds(1, 1), str |-> "10s"],
    [sec |-> Seconds(2, 1), str |-> "20s"],
    [sec |-> Seconds(5, 1), str |-> "50s"],
    [sec |-> Seconds(1, 2), str |-> "100s"] >>

\* a < b, for two decimal numbers with one-digit mantissas
LessThan(a, b) == a.e < b.e \/ (a.e = b.e /\ a.m < b.m)

\* VALID_TIMEBASES = sorted(VDS_TIMEBASE_MAP.keys()) (68)
VALID_TIMEBASES ==
    SortSeq([i \in 1..Len(VDS_TIMEBASE_MAP) |-> VDS_TIMEBASE_MAP[i].sec], LessThan)

\* VDS_TIMEBASE_MAP[t_base_sec]
TimebaseString(t) ==
    LET i == CHOOSE j \in 1..Len(VDS_TIMEBASE_MAP) : VDS_TIMEBASE_MAP[j].sec = t
    IN  VDS_TIMEBASE_MAP[i].str

\* t * freq * 5 compared with 1, that is t compared with 2 * (1 / freq) / 10: the
\* product is  t.m * freq.m * 5 * 10^(t.e + freq.e),  with t.m * freq.m * 5 < 1000
ProductDigits(t, freq) == t.m * freq.m * 5
ExactlyIdeal(t, freq) ==
    /\ t.e + freq.e \in {-2, -1}
    /\ ProductDigits(t, freq) = Pow(10, -(t.e + freq.e))
AboveIdeal(t, freq) ==
    \/ t.e + freq.e >= 0
    \/ /\ t.e + freq.e \in {-2, -1}
       /\ ProductDigits(t, freq) > Pow(10, -(t.e + freq.e))

\* The frequencies for which the double (1.0 / freq * 2.0) / 10.0 of lines 96-97 is
\* not the double of the enumerated timebase it equals on paper but the next one
\* above it: 100 kHz gives 2.0000000000000003e-06, 200 kHz 1.0000000000000002e-06,
\* 400 kHz 5.000000000000001e-07.  At every other frequency 0.2 / t of an enumerated
\* t the two doubles are the same.
IdealRoundedUp == {Hertz(1, 5), Hertz(2, 5), Hertz(4, 5)}

\* line 99: t_base_sec >= ideal_time_per_div, on doubles
GeIdeal(t, freq) ==
    \/ AboveIdeal(t, freq)
    \/ ExactlyIdeal(t, freq) /\ freq \notin IdealRoundedUp

RECURSIVE ScanTimebases(_, _)
\* lines 98-102: the first timebase of the sorted list that passes the test, or the
\* last of the list
ScanTimebases(i, freq) ==
    IF i > Len(VALID_TIMEBASES) THEN VALID_TIMEBASES[Len(VALID_TIMEBASES)]
    ELSE IF GeIdeal(VALID_TIMEBASES[i], freq) THEN VALID_TIMEBASES[i]
    ELSE ScanTimebases(i + 1, freq)

\* get_optimal_timebase(freq): the pair (string, seconds)
get_optimal_timebase(freq) ==
    IF freq.m <= 0 THEN <<"1s", Seconds(1, 0)>>
    ELSE LET t_base_sec == ScanTimebases(1, freq)
         IN  <<TimebaseString(t_base_sec), t_base_sec>>

\* the frequencies of the calls: line 422 is reached with freq > 0 only (400-402)
MaxFreqExp == 8
FreqMantissas == {1, 2, 3, 4, 5, 8}
FreqExps == -4..MaxFreqExp
Frequencies == {Hertz(m, e) : m \in FreqMantissas, e \in FreqExps}

TimebaseInit ==
    /\ SweepOff
    /\ ReaderOff
    /\ MainOff
    /\ HandlesOff
    /\ SpectrumOff
    /\ gen_is_connected = FALSE /\ scope_is_connected = FALSE
    /\ log = <<>>
    /\ tb_pc = "call" /\ tb_freq \in Frequencies /\ tb_ret = None

timebaseFrame ==
    <<ctlVars, sweepVars, repVars, meas, connVars, log, readerVars, queryVars, mainVars,
      handleVars, spectrumVars>>

CallTimebase ==
    /\ tb_pc = "call"
    /\ tb_ret' = get_optimal_timebase(tb_freq)
    /\ tb_pc' = "returned"
    /\ UNCHANGED <<timebaseFrame, tb_freq>>

TimebaseNext == CallTimebase

TimebaseSpec == TimebaseInit /\ [][TimebaseNext]_vars

\* ------------------------------------------------------------------ claim C25
\* t is the timebase the claim describes for freq: the smallest enumerated one that
\* is at or above 2 * period / 10 (so the smallest of the list when the ideal value is
\* at or below it), the largest of the list when none is
AtOrAboveIdeal(t, freq) == AboveIdeal(t, freq) \/ ExactlyIdeal(t, freq)

Enumerated == {VALID_TIMEBASES[i] : i \in 1..Len(VALID_TIMEBASES)}

SmallestAtOrAbove(t, freq) ==
    LET fit == {u \in Enumerated : AtOrAboveIdeal(u, freq)}
    IN  IF fit = {}
        THEN \A u \in Enumerated : u = t \/ LessThan(u, t)
        ELSE t \in fit /\ \A u \in fit : u = t \/ LessThan(t, u)

\* at every frequency but the three of IdealRoundedUp, the timebase returned is the
\* one described
TimebaseExactElsewhere ==
    (tb_pc = "returned" /\ tb_freq \notin IdealRoundedUp) =>
        /\ SmallestAtOrAbove(tb_ret[2], tb_freq)
        /\ tb_ret[1] = TimebaseString(tb_ret[2])

\* C25: get_optimal_timebase returns a member of the enumerated set, the smallest
\* that is >= 2 * period / 10, the largest of the set when the ideal value is above
\* all of them, together with the command string mapped to it.
C25_SmallestTimebaseAtOrAboveIdeal ==
    tb_pc = "returned" =>
        /\ tb_ret[2] \in Enumerated
        /\ SmallestAtOrAbove(tb_ret[2], tb_freq)
        /\ tb_ret[1] = TimebaseString(tb_ret[2])

\* ================================================================== end-to-end scenario
\* run_full_experiment driven by a simulated instrument: the sweep has positive
\* frequencies, both connections stay up, nobody presses Ctrl-C and every polled read
\* returns a value the sampler keeps (it passes the tests of lines 267-272: not
\* above 1e30, in absolute value for the delay, and not below 1e-9 for the primary
\* amplitude).

\* the value a read has just delivered is kept by the sampler
ValidRead ==
    /\ k = 1 => vpp1' # None /\ ~GtOverload(vpp1') /\ ~LtFloor(vpp1')
    /\ k = 2 => vpp2' # None /\ ~GtOverload(vpp2')
    /\ k = 3 => delay' # None /\ ~GtOverload(Abs(delay'))

SimulatedInstrument ==
    /\ UNCHANGED connVars
    /\ pc \in BlockingPcs \ {"read"} => log' = Append(log, CurrentCmd)
    /\ pc = "read" => ValidRead

ScenarioInit ==
    /\ Init
    /\ config.f_start > 0
    /\ gen_is_connected /\ scope_is_connected

ScenarioNext ==
    \/ setup_initial_state /\ SimulatedInstrument
    \/ BuildFreqList /\ SimulatedInstrument
    \/ PreLoop /\ SimulatedInstrument
    \/ LoopHead /\ SimulatedInstrument
    \/ PointStep /\ SimulatedInstrument
    \/ Register /\ SimulatedInstrument
    \/ ReadMeasurement /\ SimulatedInstrument
    \/ RepetitionCheck /\ SimulatedInstrument
    \/ SamplerReturn /\ SimulatedInstrument
    \/ Record /\ SimulatedInstrument
    \/ GeneratorOff /\ SimulatedInstrument
    \/ RestoreScope /\ SimulatedInstrument

ScenarioSpec == ScenarioInit /\ [][ScenarioNext]_vars

\* ------------------------------------------------------------------ claim C26
\* the row of the current point: the magnitude of the ratio of the mean secondary to
\* the mean primary amplitude, and the phase computed from the point's own frequency
RowRecorded ==
    pc = "record" =>
        /\ results_freq' = Append(results_freq, freq_list[point_i])
        /\ results_mag' = Append(results_mag, Db(Mean(vpp2_vals), Mean(vpp1_vals)))
        /\ results_phase' =
              Append(results_phase, PhaseDeg(Mean(delay_vals), freq_list[point_i]))

\* C26: when every read of the sweep returns valid values, no point is skipped: the
\* run returns one row per point of the frequency list, in its order, each with the
\* magnitude 20*log10(secondary/primary) of its reads and the phase recomputed from
\* its own frequency.
C26_OneRowPerPoint ==
    /\ [](Finished =>
            /\ pc = "returned"
            /\ results_freq = freq_list
            /\ Len(results_mag) = Len(freq_list)
            /\ Len(results_phase) = Len(freq_list))
    /\ [][RowRecorded]_vars

\* ================================================================== settle delays
\* The time.sleep that run_full_experiment, setup_initial_state and the sampler make
\* after each set command is SleepAfter, defined with the interrupt.  The 0.1 s pause
\* inside _send_command belongs to the connection object, not to the sequencer.

\* this step transmits the command of the current position and the thread goes on to
\* the statement that follows it (no exception, no Ctrl-C)
CommandThenNext ==
    /\ Len(log') = Len(log) + 1
    /\ pc' # "raised"
    /\ pc \in {"point", "reg"} => pc' # "gen_off"

\* ------------------------------------------------------------------ claim C27
\* C27: every set command the sequencer sends is followed by a sleep of the sequencer
\* before the next instrument command is issued: no command that is not the last of
\* the run is followed by the next one with no sleep in between.
C27_SettleDelayAfterEverySet ==
    [][(CommandThenNext /\ pc' # "returned") => SleepAfter > 0]_vars

\* ------------------------------------------------------------------ claim C28
\* the scope configuration commands of an iteration: the timebase and the
\* measurement set
ConfiguredWhileStopped ==
    {Cmd("scope", "TIMebase:SCALE")} \cup {MeasureCmds[i] : i \in 1..Len(MeasureCmds)}

\* a step of the per-point part that transmits its command and goes on: the command
\* and the sleep after it are those of the position, and the sampler is entered
\* after the third
PointInOrder ==
    (pc = "point" /\ CommandThenNext) =>
        /\ log' = Append(log, PointCmds[k])
        /\ k = 1 => /\ PointCmds[k] = Cmd("gen", "FREQuency:FIXed")
                    /\ SleepAfter = WaitForSignal(freq_list[point_i])
                    /\ pc' = "point" /\ k' = 2
        /\ k = 2 => /\ PointCmds[k] = Cmd("scope", "*STOP")
                    /\ SleepAfter = 1500
                    /\ pc' = "point" /\ k' = 3
        /\ k = 3 => /\ PointCmds[k] = Cmd("scope", "TIMebase:SCALE")
                    /\ SleepAfter = 2000
                    /\ pc' = "reg" /\ k' = 1

\* a configuration command is transmitted only when the last run/stop command the
\* scope received is STOP
StoppedWhenConfigured ==
    (Len(log') = Len(log) + 1 /\ log'[Len(log')] \in ConfiguredWhileStopped) =>
        RunStop = Cmd("scope", "*STOP")

\* C28: in each iteration the generator frequency is set, then after the stabilization
\* wait the scope is stopped, then after 1.5 s the timebase is set, then after 2 s the
\* sampler is called; the timebase and the measurement set are changed only while
\* the scope is stopped.
C28_ConfiguredOnlyWhileStopped ==
    [][PointInOrder /\ StoppedWhenConfigured]_vars

\* the second point of a sweep is being measured after the first was recorded: two
\* iterations have set the frequency, stopped the scope and set the timebase
C28_Witness ==
    /\ pc = "read" /\ point_i = 2 /\ Len(results_freq) = 1
    /\ scope_is_connected /\ gen_is_connected

\* ------------------------------------------------------------------ claim C29
\* what the sequencer is said to do before the first iteration, in this order
PreparedInOrder == <<
    Cmd("scope", "TRIGger:SINGle:EDGE:SOURce CH1"),
    Cmd("scope", "CH1:OFFSet 0"),
    Cmd("scope", "CH2:OFFSet 0"),
    Cmd("scope", "TRIGger:MODE AUTO"),
    Cmd("scope", "*RUN") >>

\* when the for loop is reached with the scope connected, the commands sent since
\* the end of setup_initial_state hold the five in order, RUN being the last
PreparedBeforeLoop ==
    (pc = "loop" /\ point_i = 0 /\ scope_is_connected) =>
        /\ Len(log) >= Len(PreLoopCmds)
        /\ IsSubsequence(PreparedInOrder,
                         SubSeq(log, Len(log) - Len(PreLoopCmds) + 1, Len(log)))
        /\ log[Len(log)] = Cmd("scope", "*RUN")

\* the step that sends the last command before the loop sends RUN, sleeps 3 s and
\* reaches the for statement
RunThenWait ==
    (pc = "pre" /\ k = Len(PreLoopCmds) /\ CommandThenNext) =>
        /\ log'[Len(log')] = Cmd("scope", "*RUN")
        /\ SleepAfter = 3000
        /\ pc' = "loop"

\* a STOP is transmitted only after the five, the last run/stop command being RUN
\* when it is the first STOP
StopAfterRun ==
    (Len(log') = Len(log) + 1 /\ log'[Len(log')] = Cmd("scope", "*STOP")) =>
        /\ IsSubsequence(PreparedInOrder, log)
        /\ RunStop \in {Cmd("scope", "*RUN"), Cmd("scope", "*STOP")}
        /\ point_i = 1 => RunStop = Cmd("scope", "*RUN")

\* C29: before the first iteration the sequencer has fixed the trigger source to
\* channel 1, zeroed both offsets, set the trigger mode to AUTO, sent RUN and waited
\* 3 s, in this order; the first STOP of the sweep comes only after that RUN and wait.
C29_PreparedBeforeFirstPoint ==
    /\ []PreparedBeforeLoop
    /\ [][RunThenWait /\ StopAfterRun]_vars

\* the first STOP of the sweep has just been transmitted, in the first iteration
C29_Witness ==
    /\ pc = "point" /\ k = 3 /\ point_i = 1
    /\ log[Len(log)] = Cmd("scope", "*STOP")
    /\ scope_is_connected

\* ------------------------------------------------------------------ claim C30
\* C30: a point of the frequency list whose frequency is not positive is skipped with
\* no measurement attempted: the for statement goes to the next point, no command is
\* sent to the generator or to the scope, the sampler is not called and nothing is
\* appended to the results.
C30_NonPositiveFrequencySkipped ==
    [][(/\ pc = "loop"
        /\ point_i < Len(freq_list)
        /\ freq_list[point_i + 1] <= 0) =>
            /\ pc' = "loop" /\ exc' = exc
            /\ point_i' = point_i + 1
            /\ log' = log
            /\ UNCHANGED <<results_freq, results_mag, results_phase>>
            /\ UNCHANGED <<repVars, meas, connVars>>]_vars

\* a sweep of two points from 0 Hz has returned one row, that of its second point
C30_Witness ==
    /\ pc = "returned"
    /\ Len(freq_list) = 2 /\ freq_list[1] = 0
    /\ results_freq = <<freq_list[2]>>

\* ------------------------------------------------------------------ claim C31
RECURSIVE Times(_, _)
\* how many times command c has been transmitted
Times(l, c) ==
    IF l = <<>> THEN 0
    ELSE (IF Head(l) = c THEN 1 ELSE 0) + Times(Tail(l), c)

Range(s) == {s[i] : i \in 1..Len(s)}

\* the value a vertical-scale command carries (lines 380 and 388), as a set: empty
\* for a command that sets no vertical scale
ScaleValue(c) ==
    IF c = Cmd("scope", "CH1:SCALE 1") THEN {1}
    ELSE IF c = Cmd("scope", "CH2:SCALE 1") THEN {1}
    ELSE {}

ScaleCmds == {c \in Range(PreLoopCmds) \cup Range(PointCmds) \cup Range(MeasureCmds)
                  \cup Range(SetupCmds) \cup Range(RestoreCmds) \cup {GenOffCmd} :
              ScaleValue(c) # {}}

\* commands that change the vertical scale, the probe attenuation or the offset
VerticalCmds ==
    ScaleCmds \cup {Cmd("scope", "CH1:PROBe X1"),
                    Cmd("scope", "CH1:OFFSet 0"), Cmd("scope", "CH2:OFFSet 0")}

\* the for statement has been reached: positions of lines 399-447 and after
LoopReached ==
    pc \in {"loop", "point", "reg", "read", "rep_check", "avg", "record",
            "gen_off", "restore", "returned"}

\* positions inside the per-point loop
InLoop == pc \in {"loop", "point", "reg", "read", "rep_check", "avg", "record"}

\* once the loop is reached each channel's scale has been set exactly once, both to
\* the same value
ScalesSetOnce ==
    LoopReached =>
        /\ Times(log, Cmd("scope", "CH1:SCALE 1")) = 1
        /\ Times(log, Cmd("scope", "CH2:SCALE 1")) = 1
        /\ \A c \in ScaleCmds : Times(log, c) = 1
        /\ ScaleValue(Cmd("scope", "CH1:SCALE 1")) = ScaleValue(Cmd("scope", "CH2:SCALE 1"))

\* a step taken inside the loop transmits no vertical command
LoopKeepsVertical ==
    (InLoop /\ Len(log') = Len(log) + 1) => log'[Len(log')] \notin VerticalCmds

\* C31: during a sweep the vertical scale of channel 1 and of channel 2 is each set
\* exactly once, before the per-point loop, to the same constant value; the loop
\* never changes the vertical scale, probe attenuation or offset of either channel.
C31_ScalesPinnedBeforeLoop ==
    /\ []ScalesSetOnce
    /\ [][LoopKeepsVertical]_vars

\* a sweep has measured two points and is back at the for statement
C31_Witness ==
    /\ pc = "loop" /\ point_i = 2 /\ Len(results_freq) = 2
    /\ Times(log, Cmd("scope", "TIMebase:SCALE")) = 2
    /\ Times(log, Cmd("scope", "CH2:SCALE 1")) = 1

\* ------------------------------------------------------------------ claim C32
\* the operator has not confirmed yet: lines 146-169
BeforeConfirmation == sp_pc \in {"timebase", "prompt"}

\* nothing has gone to the instrument and nothing has been acquired
NothingIssued == log = <<>> /\ downloads = <<>> /\ all_complex_ffts = <<>>

\* a step taken before the confirmation transmits nothing
SilentBeforeConfirmation == BeforeConfirmation => (log' = log /\ downloads' = downloads)

\* Ctrl-C at the prompt: the call returns None at once
InterruptedAtPrompt ==
    (sp_pc = "prompt" /\ sp_pc' # "stop0") =>
        /\ sp_pc' = "returned" /\ sp_ret' = "None"
        /\ log' = <<>> /\ downloads' = <<>> /\ all_complex_ffts' = <<>>

\* C32: run_spectrum_analysis issues no instrument command (STOP, timebase, scale or
\* probe read-back, RUN, download) before the operator has confirmed at the prompt;
\* if the operator interrupts at the prompt the analysis ends with no result and no
\* acquisition is performed.
C32_NoCommandBeforeConfirmation ==
    /\ [](BeforeConfirmation => NothingIssued)
    /\ [][SilentBeforeConfirmation /\ InterruptedAtPrompt]_vars

\* the operator interrupted at the prompt of an analysis on a connected scope
C32_Witness ==
    /\ sp_pc = "returned" /\ sp_ret = "None"
    /\ scope_is_connected /\ NothingIssued

\* ------------------------------------------------------------------ claim C33
\* the two read-back queries of lines 189 and 191
ReadBackCmds == {Cmd("scope", "CHANnel1:SCALE?"), Cmd("scope", "CHANnel1:PROBe?")}

\* time.sleep after the command sent from a position of run_spectrum_analysis, in
\* milliseconds; the wait of line 208 is t_base_sec * 5.0 + 1.0, at least one second
SpectrumSleepAfter(at) ==
    CASE at = "stop0" -> 1000          \* line 179
      [] at = "set_scale" -> 1000      \* line 181
      [] at = "run" -> 1000            \* lines 208-210, lower bound
      [] at = "stop" -> 2000           \* lines 214-216
      [] OTHER -> 0

\* the command just transmitted, when this step transmits one
JustSent(c) == log' = Append(log, c)

\* a read-back query goes out only after STOP and the timebase, and before any RUN
ReadBackAfterReconfigure ==
    (\E c \in ReadBackCmds : JustSent(c)) =>
        /\ sp_pc \in {"get_scale", "get_probe"}
        /\ IsSubsequence(<<Cmd("scope", "*STOP"), Cmd("scope", "TIMebase:SCALE")>>, log)
        /\ Times(log, Cmd("scope", "*RUN")) = 0

\* a Ctrl-C that arrives while the call blocks after a transmission ends the call
InterruptEnds == sp_pc' = "raised" /\ sp_ret' = "KeyboardInterrupt"

\* STOP and the timebase change are each followed by their settle wait, and the
\* scale query is what follows the timebase change, unless a Ctrl-C ends the call
ReconfigureSettles ==
    /\ (sp_pc = "stop0" /\ JustSent(Cmd("scope", "*STOP"))) =>
            /\ SpectrumSleepAfter(sp_pc) > 0
            /\ sp_pc' = "set_scale" \/ InterruptEnds
    /\ (sp_pc = "set_scale" /\ JustSent(Cmd("scope", "TIMebase:SCALE"))) =>
            /\ SpectrumSleepAfter(sp_pc) > 0
            /\ sp_pc' = "get_scale" \/ InterruptEnds

\* a RUN goes out only once both values are read back and the factor is computed
RunAfterReadBack ==
    JustSent(Cmd("scope", "*RUN")) =>
        /\ \A c \in ReadBackCmds : Times(log, c) = 1
        /\ v_div_val # None /\ volts_per_step # None

\* the factor is assigned by the read-back only
FactorFromReadBack ==
    (volts_per_step' # volts_per_step) =>
        /\ sp_pc = "get_probe" /\ volts_per_step = None
        /\ \E t \in ProbeResponses :
             IsProbe(t) /\ volts_per_step' = VoltsPerStep(v_div_val, ProbeInt(t))

\* each query is transmitted at most once, and every repetition whose samples were
\* converted used the factor of that read-back
OneFactorForAll ==
    /\ \A c \in ReadBackCmds : Times(log, c) <= 1
    /\ \A i \in 1..Len(downloads) :
         downloads[i].factor # None =>
            volts_per_step # None /\ downloads[i].factor = volts_per_step

\* C33: the vertical scale and the probe attenuation are read back only after the
\* STOP and the timebase change with their settle waits, and before the first RUN
\* of the repetition loop; the volts-per-code factor used for every repetition
\* comes from that single read-back.
C33_ReadBackAfterReconfigureOnce ==
    /\ []OneFactorForAll
    /\ [][/\ ReadBackAfterReconfigure
          /\ ReconfigureSettles
          /\ RunAfterReadBack
          /\ FactorFromReadBack]_vars

\* a result averaged from two repetitions, both converted with the factor of a
\* 1 V/div scale and a X10 probe
C33_Witness ==
    /\ sp_pc = "returned" /\ sp_ret = "result"
    /\ all_complex_ffts = <<1, 2>>
    /\ volts_per_step = VoltsPerStep(ScaleMillivolts("1"), 10)
    /\ downloads[1].factor = volts_per_step /\ downloads[2].factor = volts_per_step

\* ------------------------------------------------------------------ claim C34
\* the download query of line 219
AdcQuery == Cmd("scope", "*ADC? CH1")

\* a download is attempted: the query goes out, or an answer (or none) is recorded
DownloadAttempted == JustSent(AdcQuery) \/ downloads' # downloads

\* the attempt returns to the loop with its answer recorded, or its exception ends
\* the call
AttemptEnds ==
    \/ sp_pc' = "loop" /\ Len(downloads') = Len(downloads) + 1
    \/ sp_pc' = "raised" /\ downloads' = downloads

\* RUN and its wait, then STOP and its wait, then the download, unless a Ctrl-C
\* ends the call
RepetitionInOrder ==
    /\ (sp_pc = "run" /\ JustSent(Cmd("scope", "*RUN"))) =>
            /\ SpectrumSleepAfter(sp_pc) > 0
            /\ sp_pc' = "stop" \/ InterruptEnds
    /\ (sp_pc = "stop" /\ JustSent(Cmd("scope", "*STOP"))) =>
            /\ SpectrumSleepAfter(sp_pc) > 0
            /\ sp_pc' = "download" \/ InterruptEnds
    /\ DownloadAttempted =>
            /\ sp_pc = "download"
            /\ Len(log) >= 2
            /\ log[Len(log) - 1] = Cmd("scope", "*RUN")
            /\ log[Len(log)] = Cmd("scope", "*STOP")
            /\ RunStop = Cmd("scope", "*STOP")
            /\ AttemptEnds

\* one attempt per repetition, in order; all of them made when the loop is over
OneDownloadPerRepetition ==
    /\ \A i \in 1..Len(downloads) : downloads[i].rep = i
    /\ Times(log, AdcQuery) <= IF sp_pc = "raised" THEN sp_i ELSE Len(downloads)
    /\ Len(downloads) \in {sp_i - 1, sp_i} \cap Nat
    /\ sp_pc = "loop" => Len(downloads) = sp_i
    /\ (sp_pc = "final_run" \/ sp_ret = "result") =>
            Len(downloads) = sp_config.num_averages

\* C34: in each repetition the steps occur in the order RUN, acquisition wait, STOP,
\* buffer wait, download: the sample buffer is downloaded only while the scope is
\* stopped, and exactly one download is attempted per repetition (num_averages
\* attempts in total, never a retry).
C34_RunWaitStopWaitDownload ==
    /\ []OneDownloadPerRepetition
    /\ [][RepetitionInOrder]_vars

\* the second repetition has just downloaded, after its RUN and STOP
C34_Witness ==
    /\ sp_pc = "loop" /\ sp_i = 2 /\ sp_config.num_averages = 2
    /\ Len(downloads) = 2 /\ Len(log) >= 3
    /\ SubSeq(log, Len(log) - 2, Len(log))
         = <<Cmd("scope", "*RUN"), Cmd("scope", "*STOP"), AdcQuery>>

\* ------------------------------------------------------------------ claim C35
\* the window config['window'] selects (lines 228-231)
ConfiguredWindow == IF HasHann(sp_config.window) THEN Hanning(N) ELSE Ones(N)

\* line 250 has been reached: the call went past the test of line 240
NormalizationReached ==
    /\ sp_pc \in {"returned", "raised"}
    /\ sp_ret \in {"result", "UnboundLocalError"}

\* the name window is bound, by a repetition of this call that was kept
WindowDefined ==
    /\ window = ConfiguredWindow
    /\ all_complex_ffts # <<>>
    /\ \E i \in 1..Len(downloads) : ~Discard(get_adc_data(downloads[i].raw))

\* the name is bound by a kept repetition only, and never unbound
WindowBoundByKept ==
    (window' # window) =>
        /\ sp_pc = "download"
        /\ window' = ConfiguredWindow
        /\ all_complex_ffts' = Append(all_complex_ffts, sp_i)

\* C35: whenever run_spectrum_analysis reaches the window-sum normalization after
\* the repetition loop, the window it uses has been defined by a successful
\* repetition of the same run, for every pattern of successful and discarded
\* repetitions, including when the last repetition (or every repetition but one)
\* was discarded.
C35_WindowDefinedAtNormalization ==
    /\ [](NormalizationReached => (sp_ret = "result" /\ WindowDefined))
    /\ [](sp_pc \in {"timebase", "prompt"} => window = None)
    /\ [][WindowBoundByKept]_vars

\* a result whose only kept repetition is the first: the last one was discarded
C35_Witness ==
    /\ sp_pc = "returned" /\ sp_ret = "result"
    /\ Len(downloads) = 2 /\ all_complex_ffts = <<1>>
    /\ Discard(get_adc_data(downloads[2].raw))
    /\ window = ConfiguredWindow

\* ------------------------------------------------------------------ claim C36
\* the query of this step times out waiting for the answer (owon_vds_scpi.py
\* 279-281): the fetch returns None and the connection stays open
FetchTimesOut ==
    /\ rd_pc = "fetch" /\ q_pc = "recv"
    /\ last_recv' = "timeout"
    /\ scope_is_connected' /\ scope_is_connected

\* C36: a fetch that returns None because the query timed out, with no connection
\* drop, ends the call of read_measurement_with_polling at once with None: it is
\* not taken for a not-ready response and is not retried, even though the polling
\* timeout has not elapsed.
C36_TimedOutFetchEndsCall ==
    [][/\ FetchTimesOut =>
            /\ rd_pc' = "done" /\ rd_ret' = None
            /\ last_val_str' = None
            /\ attempts' = attempts
       /\ (rd_pc = "done" /\ last_val_str = None) =>
            (attempts' = attempts /\ rd_pc' = "done" /\ log' = log)]_vars

\* a call ended by the timeout of its first query, on a connection still open and
\* with polling time left
C36_Witness ==
    /\ rd_pc = "done" /\ rd_ret = None /\ last_val_str = None
    /\ last_recv = "timeout" /\ scope_is_connected
    /\ attempts = 1 /\ elapsed < timeout_sec /\ timeout_sec = MaxTimeout

\* ------------------------------------------------------------------ claim C37
\* this step is a set command, called on an open connection, whose write fails:
\* nothing is transmitted
SendFails(dev) ==
    /\ Connected(dev) /\ log' = log
    /\ last_op'.dev = dev /\ last_op'.kind = "set"

\* the last operation was a set that returned with the connection closed
FailedSendUnreported(dev) == last_op = Op(dev, "set", "returned") /\ ~Connected(dev)

\* C37: a transport error while sending a set command is not reported to the
\* caller: _send_command (scope and generator) returns normally, leaves the
\* connection disconnected, and the failure becomes visible only as a
\* ConnectionError raised by the next operation on that connection.
C37_SendErrorSurfacesOnNextOperation ==
    [][\A dev \in Devices :
         /\ SendFails(dev) =>
                /\ last_op'.result = "returned"
                /\ ~Connected(dev)'
                /\ Handle(dev)' = "None"
                /\ Connected(IF dev = "gen" THEN "scope" ELSE "gen")'
                     = Connected(IF dev = "gen" THEN "scope" ELSE "gen")
         /\ (/\ FailedSendUnreported(dev)
             /\ last_op'.dev = dev /\ last_op'.kind \in {"set", "query"}) =>
                /\ last_op'.result = "ConnectionError"
                /\ log' = log]_vars

\* ================================================================== the Bode program
\* main() of bode_plotter.py (54-166): the connections, one experiment (the sweep
\* of run_full_experiment, by the actions above), the questions after it, and the
\* finally block.  A new experiment goes through the same stage again.

programFrame == <<readerVars, queryVars, handleVars, spectrumVars, timebaseVars>>

ProgramInit ==
    /\ SweepOff
    /\ ReaderOff
    /\ HandlesOff
    /\ SpectrumOff
    /\ TimebaseOff
    /\ gen_is_connected = FALSE /\ scope_is_connected = FALSE      \* gen = scope = None
    /\ log = <<>>
    /\ program = "bode" /\ cf_pc = "connect_gen" /\ config_to_use = None

\* the try body is left for the finally block (lines 146-153)
ToCleanup == cf_pc' = "cleanup_gen"

\* lines 63-65: gen.connect() raises ConnectionError or connects; gen.get_idn()
\* answers, or returns None after a transport error that closed the connection, or
\* raises what close() raised when the connection could not be closed
ConnectGenerator ==
    /\ cf_pc = "connect_gen"
    /\ \/ ToCleanup /\ gen_is_connected' = FALSE /\ log' = log      \* ConnectionError, Ctrl-C
       \/ \E sent \in BOOLEAN :
            /\ log' = IF sent THEN Append(log, IdnQuery("gen")) ELSE log
            /\ \/ sent /\ gen_is_connected' = TRUE /\ cf_pc' = "connect_scope"
               \/ gen_is_connected' = FALSE /\ cf_pc' = "connect_scope"
               \/ gen_is_connected' = TRUE /\ ToCleanup       \* Ctrl-C, close() raised
    /\ UNCHANGED <<ctlVars, sweepVars, repVars, meas, programFrame>>
    /\ UNCHANGED <<scope_is_connected, program, config_to_use>>

\* lines 68-75: scope.connect(), scope.get_idn(), scope.reset_instrument(), sleep.
\* Each of the two queries is written or not (sendall timed out or failed), and
\* returns with the connection kept (an answer, None on socket.timeout), returns
\* None with the connection closed, or raises what close() raised.
ConnectScope ==
    /\ cf_pc = "connect_scope"
    /\ \/ ToCleanup /\ scope_is_connected' = FALSE /\ log' = log    \* ConnectionError, Ctrl-C
       \/ /\ ToCleanup            \* get_idn: connection closed, close() raised, Ctrl-C
          /\ scope_is_connected' \in BOOLEAN
          /\ log' \in {log, Append(log, IdnQuery("scope"))}
       \/ \E idn \in {log, Append(log, IdnQuery("scope"))} :
            /\ scope_is_connected' \in BOOLEAN
            /\ log' \in {idn, Append(idn, Cmd("scope", "*RST"))}
            /\ cf_pc' \in {"configure", "cleanup_gen"}   \* raised or Ctrl-C: cleanup
    /\ UNCHANGED <<ctlVars, sweepVars, repVars, meas, programFrame>>
    /\ UNCHANGED <<gen_is_connected, program, config_to_use>>

\* the experiments of one run of the program have no more points and no more
\* repetitions than these
MaxProgramPoints == 1
MaxProgramAverages == 1

ProgramConfigs ==
    {c \in Configs : c.num_points <= MaxProgramPoints
                     /\ c.num_averages <= MaxProgramAverages}

\* lines 78-106: the configuration is chosen and confirmed and run_full_experiment
\* is called, a new call with new locals; or the operator cancels (line 138); or a
\* prompt is interrupted, or an answer makes get_user_config raise, or load_config
\* raises.  config_to_use is bound at line 85, after the first question, and again
\* at line 94: what ends the stage before line 85 leaves it as it was.
Configure ==
    /\ cf_pc = "configure"
    /\ \/ /\ cf_pc' = "experiment"
          /\ config' \in ProgramConfigs /\ config_to_use' = config'
          /\ pc' = "setup" /\ k' = 1 /\ exc' = "none"
          /\ freq_list' = <<>> /\ point_i' = 0
          /\ results_freq' = <<>> /\ results_mag' = <<>> /\ results_phase' = <<>>
          /\ SamplerUnwound /\ meas' = NoneTriple
       \/ /\ cf_pc' = "after"
          /\ config_to_use' \in ProgramConfigs
          /\ UNCHANGED <<ctlVars, sweepVars, repVars, meas>>
       \/ /\ cf_pc' = "cleanup_gen"
          /\ config_to_use' \in ProgramConfigs \cup {config_to_use}
          /\ UNCHANGED <<ctlVars, sweepVars, repVars, meas>>
    /\ UNCHANGED <<connVars, log, programFrame, program>>

\* line 106 returns, or raises into one of the handlers of 146-152
ExperimentEnds ==
    /\ cf_pc = "experiment"
    /\ pc \in {"returned", "raised"}
    /\ cf_pc' = IF pc = "returned" THEN "after" ELSE "cleanup_gen"
    /\ UNCHANGED <<ctlVars, sweepVars, repVars, meas, connVars, log, programFrame>>
    /\ UNCHANGED <<program, config_to_use>>

\* the operator asks for a new experiment only while no more commands than this
\* have gone out
MaxRestartWire == 35

\* lines 108-144: the plot, the questions about saving, the question about a new
\* experiment: the operator declines (break), or an interrupt or an error ends the
\* try; or the operator answers 's' and the loop of line 77 starts again
AfterExperiment ==
    /\ cf_pc = "after"
    /\ \/ ToCleanup
       \/ Len(log) <= MaxRestartWire /\ cf_pc' = "configure"
    /\ UNCHANGED <<ctlVars, sweepVars, repVars, meas, connVars, log, programFrame>>
    /\ UNCHANGED <<program, config_to_use>>

\* a cleanup command, _send_command with its pause of 0.1 s, then disconnect();
\* Ctrl-C while it blocks, and what close() raises in disconnect(), are caught at
\* line 163, which ends the finally block
CleanupOutcomes(dev) == {"sent", "error", "KeyboardInterrupt", CloseError(dev)}

\* lines 155-158
CleanupGenerator ==
    /\ cf_pc = "cleanup_gen"
    /\ IF ~gen_is_connected
       THEN cf_pc' = "cleanup_scope" /\ UNCHANGED <<connVars, log>>
       ELSE \E o \in CleanupOutcomes("gen") :
              /\ log' \in IF o = "sent" THEN {Append(log, GenOffCmd)}
                          ELSE IF o = "error" THEN {log}
                          ELSE {log, Append(log, GenOffCmd)}
              /\ gen_is_connected' = Raised(o)
              /\ scope_is_connected' = scope_is_connected
              /\ cf_pc' = IF Raised(o) THEN "ended" ELSE "cleanup_scope"
    /\ UNCHANGED <<ctlVars, sweepVars, repVars, meas, programFrame>>
    /\ UNCHANGED <<program, config_to_use>>

\* lines 159-162
CleanupScope ==
    /\ cf_pc = "cleanup_scope"
    /\ IF ~scope_is_connected
       THEN cf_pc' = "ended" /\ UNCHANGED <<connVars, log>>
       ELSE \E o \in CleanupOutcomes("scope") :
              /\ log' \in IF o = "sent" THEN {Append(log, Cmd("scope", "TRIGger:MODE AUTO"))}
                          ELSE IF o = "error" THEN {log}
                          ELSE {log, Append(log, Cmd("scope", "TRIGger:MODE AUTO"))}
              /\ scope_is_connected' = Raised(o)
              /\ gen_is_connected' = gen_is_connected
              /\ cf_pc' = "ended"
    /\ UNCHANGED <<ctlVars, sweepVars, repVars, meas, programFrame>>
    /\ UNCHANGED <<program, config_to_use>>

ProgramNext ==
    \/ ConnectGenerator
    \/ ConnectScope
    \/ Configure
    \/ setup_initial_state
    \/ BuildFreqList
    \/ PreLoop
    \/ LoopHead
    \/ PointStep
    \/ Register
    \/ ReadMeasurement
    \/ RepetitionCheck
    \/ SamplerReturn
    \/ Record
    \/ GeneratorOff
    \/ RestoreScope
    \/ KeyboardInterrupt
    \/ ExperimentEnds
    \/ AfterExperiment
    \/ CleanupGenerator
    \/ CleanupScope

ProgramSpec == ProgramInit /\ [][ProgramNext]_vars

\* ------------------------------------------------------------------ claim C38
\* the program has ended: line 166
ProgramEnded == cf_pc = "ended"

\* a connection closed by the finally block had its command sent first, unless the
\* send itself is what failed
CommandedBeforeDisconnect ==
    /\ (cf_pc = "cleanup_gen" /\ gen_is_connected /\ ~gen_is_connected') =>
            log' \in {log, Append(log, GenOffCmd)}
    /\ (cf_pc = "cleanup_scope" /\ scope_is_connected /\ ~scope_is_connected') =>
            log' \in {log, Append(log, Cmd("scope", "TRIGger:MODE AUTO"))}

\* C38: whenever the Bode main program ends (operator declines a new run, connection
\* error, interrupt, or any exception from a sweep), every instrument that is still
\* connected has been disconnected, the generator having been commanded output OFF
\* and the scope trigger mode AUTO before their disconnection.
C38_EveryInstrumentDisconnectedAtEnd ==
    /\ [](ProgramEnded => (~gen_is_connected /\ ~scope_is_connected))
    /\ [][CommandedBeforeDisconnect]_vars

====
